---------------------------- MODULE Spec2Model ----------------------------
(***************************************************************************)
(* Device state synchronisation core of homebridge-resideo: the thermostat *)
(* adapter (src/src/devices/thermostats.ts) with its poll interval, its    *)
(* debounced push pipeline and its retry timers, and the platform's shared *)
(* room-sensor cache (src/src/platform.ts, getCurrentSensorData).          *)
(*                                                                         *)
(* Temperatures are integers in tenths of a degree (20.5 C = 205, 68 F =   *)
(* 680), so that the 0.5-degree rounding of toCelsius and the whole-degree *)
(* rounding of toFahrenheit are computed exactly.                          *)
(***************************************************************************)
EXTENDS Integers, Sequences, FiniteSets, Bags, TLC

\* ------------------------------------------------------------------ bounds
MaxSetCalls   == 3   \* set<Characteristic> calls in a behaviour of user commands
MaxPollTicks  == 2   \* ticks of the poll interval in a behaviour of polling
MaxFailures   == 2   \* vendor requests that fail in a behaviour of failures
MaxInFlight   == 3   \* vendor requests awaiting their response at one time
MaxTimers     == 3   \* one-shot interval(...).take(1) timers pending at one time
MaxCalls      == 3   \* getCurrentSensorData calls per behaviour
MaxExchanges  == 2   \* token requests awaiting their answer at one time
MaxTokenCalls == 3   \* getAccessToken calls after which refreshAccessToken is not called again
MaxTokenTicks == 5   \* steps of the token clock
MaxDevices    == 3   \* devices in the vendor's answer to discoverlocations
MaxClockSteps == 2   \* steps of the clock per behaviour

\* ------------------------------------------------- host framework constants
OFF  == 0
HEAT == 1
COOL == 2
AUTO == 3
CELSIUS    == 0
FAHRENHEIT == 1

\* JavaScript undefined / NaN, as a string and as numbers outside every range
Undefined == "undefined"
UndefNum  == 0 - 1000001
NaN       == 0 - 1000000

\* ------------------------------------------------------------ utils.ts
\* Math.round(x) for x = n / d with d > 0: floor(x + 1/2)
MathRound(n, d) == (2 * n + d) \div (2 * d)

\* a conversion that rounds to whole degrees Celsius
toCelsiusWholeDegrees(value, unit) ==
  IF unit = 0 THEN value
  ELSE 10 * MathRound(10 * (value - 320), 180)

toCelsius(value, unit) ==
  IF unit = 0 THEN value
  ELSE IF value \in {UndefNum, NaN} THEN NaN
  ELSE 5 * MathRound(10 * (value - 320), 90)

\* a conversion that cuts the fraction off
toFahrenheitTruncated(value, unit) ==
  IF unit = 0 THEN value
  ELSE 10 * ((9 * value + 1600) \div 50)

toFahrenheit(value, unit) ==
  IF unit = 0 THEN value
  ELSE IF value \in {UndefNum, NaN} THEN NaN
  ELSE 10 * MathRound(9 * value + 1600, 50)

HomeKitModes(mode) ==
  CASE mode = "Off"  -> 0
    [] mode = "Heat" -> 1
    [] mode = "Cool" -> 2
    [] mode = "Auto" -> 3
    [] OTHER         -> UndefNum

ResideoModes(key) ==
  IF key \in {"Off", "Heat", "Cool", "Auto"} THEN key ELSE Undefined

\* --------------------------------------------------------------- the state
VARIABLES
  device,                     \* this.device: the discovery descriptor + config overlay
  Thermostat,                 \* this.Thermostat: the Device Mirror
  Service,                    \* values the adapter wrote with updateCharacteristic
  thermostatSetpointStatus,   \* this.thermostatSetpointStatus
  thermostatUpdateInProgress, \* the push-in-progress flag
  debounce,                   \* emissions debounceTime has scheduled on doThermostatUpdate
  pollSkipping,               \* the poll interval's skipWhile has not yet let a tick through
  inflight,                   \* bag of vendor requests awaiting their response
  timers,                     \* bag of pending interval(...).pipe(skipWhile, take(1)) timers
  unitsTimer,                 \* the setTimeout of setTemperatureDisplayUnits is pending
  sent,                       \* body of the last POST issued by pushChanges
  hist,                       \* counters of what has happened so far
  burst,                      \* the Pending Command Signals since the last debounced push
  lastSet,                    \* the last set<Characteristic> call
  lastFlush,                  \* the signals that the last debounced push served
  workload,                   \* how many commands, poll ticks and failures the behaviour has
  clock,                      \* Date.now() of the platform (ms)
  sensorData,                 \* platform.sensorData: device id -> cache entry
  fetches,                    \* getCurrentSensorData calls awaiting their fetch
  cacheHist,                  \* the getCurrentSensorData calls made so far
  discovery,                  \* progress of ResideoPlatform.discoverDevices
  todo,                       \* the devices of the vendor's locations not yet visited
  config,                     \* config.options.devices merged by device id
  accessories,                \* platform.accessories: UUIDs of the accessories it holds
  hostAccessories,            \* bag of UUIDs registered with the host as platform accessories
  published,                  \* bag of UUIDs published as external accessories
  adapters,                   \* bag of UUIDs a Thermostats adapter was constructed for
  visited,                    \* the devices whose createThermostat has returned
  credentials,                \* config.credentials of the platform
  configStore,                \* credentials.refreshToken in the host's config.json
  exchanges,                  \* bag of token requests awaiting the vendor's answer
  refreshInterval,            \* this.refreshInterval: the timer held, by when it fires next
  intervals,                  \* bag of the setInterval timers the host runs, each by when
                              \* it fires next
  now,                        \* seconds since didFinishLaunching
  tokenHist,                  \* the getAccessToken calls and answers so far
  args,                       \* the arguments of a call of a function of utils.ts or of
                              \* a constructor's or verifyConfig's computation
  returned,                   \* what the call returned
  Valve,                      \* valve.ts: this.Valve, the mirror of a shutoff valve
  valveService,               \* values the valve adapter wrote with updateCharacteristic
  valveUpdateInProgress,      \* its push-in-progress flag
  valveDebounce,              \* emissions debounceTime has scheduled on doValveUpdate
  valvePollSkipping,          \* its poll interval's skipWhile has not let a tick through
  valveInflight,              \* bag of its requests awaiting their response
  valveTimers,                \* bag of its one-shot timers
  valveRetry,                 \* device.retry of the valve
  valveHist,                  \* counters, and the request answered last
  Fan,                        \* thermostats.ts: this.Fan, the fan's part of the mirror
  fanConfigured,              \* device.settings.fan && !device.thermostat.hide_fan
  fanStatus,                  \* the fan mode the vendor holds for the thermostat
  fanUpdateInProgress,        \* the flag the doFanUpdate pipeline sets
  fanDebounce,                \* emissions debounceTime has scheduled on doFanUpdate
  fanInflight,                \* bag of PUT requests of pushFanChanges awaiting an answer
  fanTimers,                  \* bag of one-shot timers the doFanUpdate subscriber armed
  fanSent,                    \* payload.mode of the last PUT of pushFanChanges
  fanHist                     \* counters of the fan commands so far

adapterVars == <<device, Thermostat, Service, thermostatSetpointStatus,
                 thermostatUpdateInProgress, debounce, pollSkipping, inflight,
                 timers, unitsTimer, sent, hist, burst, lastSet, lastFlush, workload>>
cacheVars   == <<clock, sensorData, fetches, cacheHist>>
discoveryVars == <<discovery, todo, config, accessories, hostAccessories, published,
                   adapters, visited>>
tokenVars   == <<credentials, configStore, exchanges, refreshInterval, intervals, now,
                 tokenHist>>
callVars    == <<args, returned>>
valveVars   == <<Valve, valveService, valveUpdateInProgress, valveDebounce,
                 valvePollSkipping, valveInflight, valveTimers, valveRetry, valveHist>>
fanVars     == <<Fan, fanConfigured, fanStatus, fanUpdateInProgress, fanDebounce,
                 fanInflight, fanTimers, fanSent, fanHist>>
vars        == <<adapterVars, cacheVars, discoveryVars, tokenVars, callVars, valveVars,
                 fanVars>>
\* what the actions of one part leave alone
notAdapter   == <<cacheVars, discoveryVars, tokenVars, callVars, valveVars, fanVars>>
notCache     == <<adapterVars, discoveryVars, tokenVars, callVars, valveVars, fanVars>>
notDiscovery == <<adapterVars, cacheVars, tokenVars, callVars, valveVars, fanVars>>
notToken     == <<adapterVars, cacheVars, discoveryVars, callVars, valveVars, fanVars>>
notCall      == <<adapterVars, cacheVars, discoveryVars, tokenVars, valveVars, fanVars>>
notValve     == <<adapterVars, cacheVars, discoveryVars, tokenVars, callVars, fanVars>>
notFan       == <<cacheVars, discoveryVars, tokenVars, callVars, valveVars>>

\* ------------------------------------------------------- inputs of the model
\* values the host writes through the set handlers (tenths of a degree Celsius)
SetTargetTemps  == {215, 235}
SetHeatingTemps == {190}
SetCoolingTemps == {265}
SetModes        == {HEAT, COOL, AUTO}
SetUnits        == {FAHRENHEIT}

\* what the vendor reports for the thermostat, in the device's own units
\* (a report in mode Cool carries setpoints other than those of discovery)
VendorHeat(units, mode) ==
  (IF units = "Fahrenheit" THEN 680 ELSE 200) + (IF mode = "Cool" THEN 20 ELSE 0)
VendorCool(units, mode) ==
  (IF units = "Fahrenheit" THEN 750 ELSE 240) + (IF mode = "Cool" THEN 20 ELSE 0)
VendorIndoor(units)  == IF units = "Fahrenheit" THEN 700 ELSE 210

VendorStatus(units, mode) ==
  [ units            |-> units,
    indoorTemperature |-> VendorIndoor(units),
    changeableValues |-> [ mode |-> mode,
                           heatSetpoint |-> VendorHeat(units, mode),
                           coolSetpoint |-> VendorCool(units, mode),
                           autoChangeoverActive |-> FALSE ],
    operationStatus  |-> [ mode |-> IF mode \in {"Heat", "Cool"} THEN mode ELSE "EquipmentOff" ] ]

VendorModes  == {"Heat", "Cool"}
DeviceModels == {"T9-T10", "Unknown"}
DeviceUnits  == {"Fahrenheit", "Celsius"}

\* -------------------------------------------------------------- device.ts
\* deviceBase.getDeviceRetry: the configured bound on retries
deviceMaxRetries == IF device.maxRetries # 0 THEN device.maxRetries ELSE 5

\* ---------------------------------------------------- thermostats.ts: push
\* Thermostats.ResideoMode
ResideoMode(state) ==
  CASE state = HEAT -> ResideoModes("Heat")
    [] state = COOL -> ResideoModes("COOL")
    [] state = AUTO -> ResideoModes("AUTO")
    [] state = OFF  -> ResideoModes("OFF")
    [] OTHER        -> "Unknown"

\* Thermostats.pushChangesthermostatSetpointStatus
pushChangesthermostatSetpointStatus(status) ==
  IF status # Undefined THEN status ELSE "PermanentHold"

JsonBool(b) == IF b THEN "true" ELSE "false"

EmptyPayload ==
  [ mode |-> Undefined, thermostatSetpointStatus |-> Undefined,
    autoChangeoverActive |-> Undefined,
    heatSetpoint |-> UndefNum, coolSetpoint |-> UndefNum,
    thermostatSetpoint |-> UndefNum, unit |-> Undefined ]

\* a payload that takes both setpoints from the thresholds in every mode
setpointSourceThresholds(state) ==
  [heat |-> "HeatingThresholdTemperature", cool |-> "CoolingThresholdTemperature"]

\* which mirror field feeds which setpoint, by the target mode
setpointSource(state) ==
  CASE state = HEAT -> [heat |-> "TargetTemperature", cool |-> "CoolingThresholdTemperature"]
    [] state = COOL -> [heat |-> "HeatingThresholdTemperature", cool |-> "TargetTemperature"]
    [] OTHER        -> [heat |-> "HeatingThresholdTemperature",
                        cool |-> "CoolingThresholdTemperature"]

\* the payload object Thermostats.pushChanges builds from the mirror m
PushPayload(dev, m, status) ==
  LET unit   == m.TemperatureDisplayUnits
      model  == dev.deviceModel
      p1     == IF model = "Unknown" THEN EmptyPayload
                ELSE [EmptyPayload EXCEPT !.mode = ResideoMode(m.TargetHeatingCoolingState)]
      p2     == IF model = "Round" THEN p1
                ELSE [p1 EXCEPT !.thermostatSetpointStatus =
                                   pushChangesthermostatSetpointStatus(status)]
      p3     == IF model \in {"Round", "D6"}
                THEN [p2 EXCEPT !.autoChangeoverActive =
                        IF m.TargetHeatingCoolingState = AUTO THEN "true"
                        ELSE JsonBool(dev.changeableValues.autoChangeoverActive)]
                ELSE IF model = "Unknown" THEN p2
                ELSE [p2 EXCEPT !.autoChangeoverActive =
                        JsonBool(dev.changeableValues.autoChangeoverActive)]
  IN IF model = "Unknown"
     THEN [p3 EXCEPT !.thermostatSetpoint = toFahrenheit(m.TargetTemperature, unit),
                     !.unit = IF dev.units \in {"Fahrenheit", "Celsius"}
                              THEN dev.units ELSE Undefined]
     ELSE LET src == setpointSource(m.TargetHeatingCoolingState)
          IN [p3 EXCEPT !.heatSetpoint = toFahrenheit(m[src.heat], unit),
                        !.coolSetpoint = toFahrenheit(m[src.cool], unit)]

\* JSON.stringify drops the members whose value is undefined
HasMode(payload)       == payload.mode # Undefined
HasNum(payload, field) == payload[field] \notin {UndefNum, NaN}

\* ------------------------------------------ thermostats.ts: mirror and host
ErrorMarker == 0 - 1000002   \* an Error object handed to updateCharacteristic

Fields == {"TargetTemperature", "CurrentTemperature", "TemperatureDisplayUnits",
           "TargetHeatingCoolingState", "CurrentHeatingCoolingState",
           "CoolingThresholdTemperature", "HeatingThresholdTemperature"}

\* Thermostats.updateHomeKitCharacteristics: every defined mirror field is written
updateHomeKitCharacteristics(svc, m) ==
  [f \in Fields |-> IF m[f] = UndefNum THEN svc[f] ELSE m[f]]

\* Thermostats.apiError: every characteristic receives the error
apiError(svc) == [f \in Fields |-> ErrorMarker]

\* Thermostats.parseStatus applied to a well-formed vendor response
parseStatus(m, dev, resp) ==
  LET unit == IF resp.units = "Fahrenheit" THEN FAHRENHEIT
              ELSE IF resp.units = "Celsius" THEN CELSIUS
              ELSE m.TemperatureDisplayUnits
      heatOk == resp.changeableValues.heatSetpoint > 0
      coolOk == resp.changeableValues.coolSetpoint > 0
      target == HomeKitModes(resp.changeableValues.mode)
      opMode == resp.operationStatus.mode
  IN [ TemperatureDisplayUnits |-> unit,
       CurrentTemperature |-> toCelsius(resp.indoorTemperature, unit),
       HeatingThresholdTemperature |->
         IF heatOk THEN toCelsius(dev.changeableValues.heatSetpoint, unit)
         ELSE m.HeatingThresholdTemperature,
       CoolingThresholdTemperature |->
         IF coolOk THEN toCelsius(resp.changeableValues.coolSetpoint, unit)
         ELSE m.CoolingThresholdTemperature,
       TargetHeatingCoolingState |-> target,
       CurrentHeatingCoolingState |->
         IF opMode = "Heat" THEN 1 ELSE IF opMode = "Cool" THEN 2 ELSE 0,
       TargetTemperature |->
         IF target = HEAT
         THEN IF heatOk THEN toCelsius(dev.changeableValues.heatSetpoint, unit)
              ELSE m.TargetTemperature
         ELSE IF coolOk THEN toCelsius(dev.changeableValues.coolSetpoint, unit)
              ELSE m.TargetTemperature ]

\* Thermostats.parseStatus applied to a JSON body without changeableValues (the
\* body of a non-200 answer): the assignments made before the TypeError
parseStatusErrorBody(m) ==
  [m EXCEPT !.CurrentTemperature = toCelsius(UndefNum, m.TemperatureDisplayUnits)]

\* ----------------------------------------------------- rxjs operators used
\* a pipeline without debounceTime: every emission reaches the subscriber
debounceTimeEach(pending) == pending + 1

\* debounceTime: a new emission replaces the one that is waiting
debounceTime(pending) == 1

\* a skipWhile that never lets a value through
skipWhileForever(skipping, predicate) == skipping

\* skipWhile: once the predicate has been false, every value passes
skipWhile(skipping, predicate) == skipping /\ predicate

\* ------------------------------------------------------------------ Init
Request(op, by, depth) == [op |-> op, by |-> by, depth |-> depth]
Timer(op, kind, depth) == [op |-> op, kind |-> kind, depth |-> depth]

NoBurst == <<>>

DeviceConfigs ==
  { [ deviceModel |-> model, units |-> units, retry |-> rc[1], maxRetries |-> rc[2],
      changeableValues |-> VendorStatus(units, "Heat").changeableValues ] :
      model \in DeviceModels, units \in DeviceUnits,
      rc \in {<<FALSE, 0>>, <<TRUE, 1>>} }

InitMirror ==
  [ TargetTemperature |-> 200, CurrentTemperature |-> 200,
    TemperatureDisplayUnits |-> CELSIUS,
    TargetHeatingCoolingState |-> AUTO, CurrentHeatingCoolingState |-> OFF,
    CoolingThresholdTemperature |-> 200, HeatingThresholdTemperature |-> 220 ]

InitHist ==
  [ setCalls |-> 0, pollTicks |-> 0, failures |-> 0, pushFailures |-> 0, unhandled |-> 0,
    followUpOwed |-> FALSE, answer |-> "none" ]

\* the behaviours explored: user commands alone, commands against the poll
\* interval, commands and polls against a failing vendor, and a start-up.
\* With failures = 0 the vendor answers every request with status 200; otherwise
\* it may answer with an error status at will and fail up to failures requests
Workloads ==
  { [start |-> "steady", setCalls |-> MaxSetCalls, pollTicks |-> 0, failures |-> 0],
    [start |-> "steady", setCalls |-> 2, pollTicks |-> MaxPollTicks, failures |-> 0],
    [start |-> "steady", setCalls |-> 1, pollTicks |-> 1, failures |-> MaxFailures],
    [start |-> "fresh",  setCalls |-> 1, pollTicks |-> 0, failures |-> 1] }

\* platform.ts: the Shared Sensor Cache
CacheTTL  == 45000               \* ms added to Date.now() when an entry is stored
ClockStep == CacheTTL     \* granularity of the model's clock
DeviceIds == {"ABC123", "DEF456"}
\* the (device id, group) pairs getCurrentSensorData is called with
SensorCalls == {<<"ABC123", 0>>, <<"ABC123", 1>>, <<"DEF456", 0>>}
NoEntry   == [present |-> FALSE, timestamp |-> 0, data |-> 0]

InitCache ==
  /\ clock = 0
  /\ sensorData = [id \in DeviceIds |-> NoEntry]
  /\ fetches = EmptyBag
  /\ cacheHist = <<>>

\* "fresh": the adapter right after its constructor, both refreshStatus() calls
\* of the constructor awaiting their response; "steady": the adapter after both
\* have been answered with the status of discovery
InitAdapter ==
  /\ device \in DeviceConfigs
  /\ workload \in Workloads
  /\ Thermostat = IF workload.start = "fresh" THEN InitMirror
                  ELSE parseStatus(InitMirror, device, VendorStatus(device.units, "Heat"))
  /\ Service = updateHomeKitCharacteristics(InitMirror, InitMirror)
  /\ thermostatSetpointStatus = Undefined
  /\ thermostatUpdateInProgress = FALSE
  /\ debounce = 0
  /\ pollSkipping = TRUE
  /\ inflight = IF workload.start = "fresh"
                THEN SetToBag({Request("refreshStatus", "constructor", 0)})
                       (+) SetToBag({Request("refreshStatus", "constructor", 0)})
                ELSE EmptyBag
  /\ timers = EmptyBag
  /\ unitsTimer = FALSE
  /\ sent = EmptyPayload
  /\ hist = InitHist
  /\ burst = NoBurst
  /\ lastSet = [name |-> "none", value |-> 0]
  /\ lastFlush = NoBurst

\* platform.ts: discovery.  What config.options.devices says of one device
DeviceOptions ==
  { [hide_device |-> h[1], hide_roomsensor |-> h[2], roompriority |-> h[3], external |-> h[4]] :
      h \in { <<FALSE, FALSE, FALSE, FALSE>>, <<TRUE, FALSE, FALSE, FALSE>>,
              <<TRUE, TRUE, FALSE, FALSE>>,   <<TRUE, TRUE, TRUE, FALSE>>,
              <<FALSE, TRUE, FALSE, FALSE>>,  <<FALSE, FALSE, FALSE, TRUE>> } }

\* api.hap.uuid.generate(`${deviceID}-${deviceClass}`): one UUID per string
generate(deviceID, deviceClass) == <<deviceID, deviceClass>>

\* what happens when a device is visited: nothing wrong, the room-sensor request
\* of a T9 fails, or createThermostat throws (a descriptor without deviceModel)
Faults == {"none", "roomSensors", "throws"}

\* the vendor's answer to discoverlocations, flattened in the order of the two
\* loops of discoverDevices: n devices, the first k of them at location 1
LocationLists(n) ==
  { [i \in 1..n |-> [location |-> IF i <= k THEN 1 ELSE 2, deviceID |-> ids[i],
                     deviceClass |-> "Thermostat", fault |-> faults[i]]] :
      k \in 1..(n - 1), ids \in [1..n -> DeviceIds], faults \in [1..n -> Faults] }

NoDiscovery ==
  /\ discovery = "idle"
  /\ todo = <<>>
  /\ config = [id \in DeviceIds |-> [hide_device |-> FALSE, hide_roomsensor |-> FALSE,
                                      roompriority |-> FALSE, external |-> FALSE]]
  /\ accessories = {}
  /\ hostAccessories = EmptyBag
  /\ published = EmptyBag
  /\ adapters = EmptyBag
  /\ visited = {}

\* didFinishLaunching: the host has handed over the cached accessories
\* (configureAccessory) and discoverDevices is about to ask for the locations
InitDiscovery ==
  /\ discovery = "start"
  /\ todo \in LocationLists(MaxDevices)
  /\ config \in [DeviceIds -> DeviceOptions]
  /\ accessories \in SUBSET {generate(id, "Thermostat") : id \in DeviceIds}
  /\ hostAccessories = SetToBag(accessories)
  /\ published = EmptyBag
  /\ adapters = EmptyBag
  /\ visited = {}

\* platform.ts: the token.  (1800 / 3) * 1000 ms: the nominal lifetime of an
\* access token, in seconds
TokenLifetime == 1800
\* the token clock advances by half a period
TokenStep == TokenLifetime \div 6
NoInterval == 0 - 1

\* an interval that waits for the whole lifetime
refreshPeriodWholeLifetime == TokenLifetime

\* the delay of setInterval in refreshAccessToken, in seconds
refreshPeriod == TokenLifetime \div 3

AccessTokens == {"A1", "A2"}
RefreshTokens == {"R1", "R2"}

NoAnswer == [outcome |-> "none", access_token |-> Undefined, refresh_token |-> Undefined,
             held |-> Undefined]

\* the platform has verified its configuration (verifyConfig: consumerKey and
\* refreshToken are there); didFinishLaunching has not run yet
InitToken ==
  /\ credentials \in { [consumerSecret |-> c, accessToken |-> Undefined, refreshToken |-> "R1"] :
                          c \in BOOLEAN }
  /\ configStore = "R1"
  /\ exchanges = EmptyBag
  /\ refreshInterval = NoInterval
  /\ intervals = EmptyBag
  /\ now = 0
  /\ tokenHist = [calls |-> 0, lastCall |-> 0, answer |-> NoAnswer]

NoToken == InitToken /\ credentials.consumerSecret

\* ------------------------------------- calls of the pure computations
NoResult == [done |-> FALSE]
NoCall == args = [fn |-> "none"] /\ returned = NoResult

\* whole degrees Fahrenheit a setpoint can take, in tenths
SetpointRange == {10 * f : f \in 40..99}

\* the values toCelsius is called with: setpoints, the indoor temperature in
\* tenths around the freezing point, and Celsius values passed through
TemperatureInputs == SetpointRange \cup (300..340) \cup {205, 0 - 178}

\* device.allowedModes: absent, or a list of the vendor's modes
AllowedModeSets ==
  { [defined |-> FALSE, modes |-> {}] }
  \cup { [defined |-> TRUE, modes |-> m] :
           m \in SUBSET {"Heat", "Cool", "Off", "Auto", "EmergencyHeat"} }

\* config.options.refreshRate: not configured, or seconds
RefreshRates == {UndefNum, 0 - 5, 0, 20, 29, 30, 31, 120}

\* config.options.devices: absent, or one entry that is complete, lacks its
\* deviceClass (hidden or not), or lacks its deviceID
DeviceEntries == {"absent", "complete", "noClass", "hiddenNoClass", "noID"}

\* a refreshRate of a device entry of config.options.devices (of the entry, of
\* its thermostat.roomsensor or of its thermostat.roompriority): absent, or seconds
OverrideRates == {UndefNum, 0, 5, 30, 60}

\* config.options.refreshRate once verifyConfig has returned
VerifiedRates == {r \in RefreshRates : r # UndefNum /\ r >= 30}

CallInputs ==
  { [fn |-> "toCelsius", value |-> v, unit |-> u] :
      v \in TemperatureInputs, u \in {CELSIUS, FAHRENHEIT} }
  \cup { [fn |-> "toFahrenheit", value |-> v, unit |-> FAHRENHEIT] : v \in SetpointRange }
  \cup { [fn |-> "ResideoMode", state |-> st] : st \in {OFF, HEAT, COOL, AUTO} }
  \cup { [fn |-> "TargetState", allowedModes |-> a, show_auto |-> sa] :
           a \in AllowedModeSets, sa \in BOOLEAN }
  \cup { [fn |-> "verifyConfig", refreshRate |-> r, devices |-> d, consumerKey |-> k,
           refreshToken |-> t] :
           r \in RefreshRates, d \in DeviceEntries, k \in BOOLEAN, t \in BOOLEAN }
  \cup { [fn |-> "getDeviceRateSettings", roomsensor |-> rs, roompriority |-> rp,
           refreshRate |-> d, options |-> o] :
           rs \in OverrideRates, rp \in OverrideRates, d \in OverrideRates,
           o \in VerifiedRates }

InitCall == args \in CallInputs /\ returned = NoResult

\* ------------------------------------------------------- valve.ts: state
INACTIVE == 0
ACTIVE == 1
IN_USE == 1
NOT_IN_USE == 0
NoAnswerYet == [op |-> "none", outcome |-> "none"]
\* no POST of the valve has been answered with success yet; after counts the
\* setActive calls that came before a request was sent
NoPushYet == [state |-> "none", after |-> 0]

\* the Valve constructor has run: the mirror holds the defaults, refreshStatus
\* was called and its GET is under way, updateHomeKitCharacteristics has
\* written the defaults to the host
InitValve ==
  /\ Valve = [Active |-> INACTIVE, InUse |-> NOT_IN_USE]
  /\ valveService = [Active |-> INACTIVE, InUse |-> NOT_IN_USE]
  /\ valveUpdateInProgress = FALSE
  /\ valveDebounce = 0
  /\ valvePollSkipping = TRUE
  /\ valveInflight = SetToBag({[op |-> "refreshStatus", state |-> Undefined, after |-> 0]})
  /\ valveTimers = EmptyBag
  /\ valveRetry \in BOOLEAN
  /\ valveHist = [setCalls |-> 0, pollTicks |-> 0, answered |-> NoAnswerYet,
                  commanded |-> INACTIVE, pushed |-> NoPushYet]

NoValve == InitValve /\ ~valveRetry

\* thermostats.ts: the fan of a thermostat.  TargetFanState of the host
MANUAL  == 0
FanAUTO == 1
FanModes == {"Auto", "On", "Circulate"}

\* the constructor of a thermostat with a fan has run: the defaults of this.Fan,
\* both flags false, nothing scheduled
InitFan ==
  /\ Fan = [Active |-> ACTIVE, TargetFanState |-> MANUAL]
  /\ fanConfigured \in BOOLEAN
  /\ fanStatus \in FanModes
  /\ fanUpdateInProgress = FALSE
  /\ fanDebounce = 0
  /\ fanInflight = EmptyBag
  /\ fanTimers = EmptyBag
  /\ fanSent = Undefined
  /\ fanHist = [setCalls |-> 0, failures |-> 0, unhandled |-> 0]

\* a thermostat without a fan (device.settings.fan is not set)
NoFan == InitFan /\ ~fanConfigured /\ fanStatus = "Auto"

Init == InitAdapter /\ InitCache /\ NoDiscovery /\ NoToken /\ NoCall /\ NoValve /\ NoFan

\* ------------------------------------------------- thermostats.ts: setters
\* doThermostatUpdate.next(): tap sets the flag, debounceTime restarts its timer
doThermostatUpdate_next(name, value) ==
  /\ thermostatUpdateInProgress' = TRUE
  /\ debounce' = debounceTime(debounce)
  /\ burst' = Append(burst, [name |-> name, value |-> value])

\* a set handler that posts the mirror itself
SetterNetworkDirect ==
  /\ BagCardinality(inflight) < MaxInFlight
  /\ inflight' = inflight (+) SetToBag({[op |-> "pushChanges", by |-> "setter", depth |-> 0]})
  /\ sent' = PushPayload(device, Thermostat, thermostatSetpointStatus)
  /\ UNCHANGED thermostatSetpointStatus

\* no set handler calls request(...) or pushChanges()
SetterNetwork == UNCHANGED <<inflight, sent, thermostatSetpointStatus>>

SetterFrame(name, value) ==
  /\ hist.setCalls < workload.setCalls
  /\ hist' = [hist EXCEPT !.setCalls = @ + 1, !.answer = "none"]
  /\ lastSet' = [name |-> name, value |-> value]
  /\ SetterNetwork
  /\ UNCHANGED <<device, pollSkipping, timers, lastFlush, workload, notAdapter>>

\* a handler that signals every mode it is given
modeChangedAlways(value) == TRUE

\* setTargetHeatingCoolingState signals only a mode other than the one of this.device
modeChanged(value) == value # HomeKitModes(device.changeableValues.mode)

setTargetHeatingCoolingState(value) ==
  /\ SetterFrame("TargetHeatingCoolingState", value)
  /\ Thermostat' =
       [Thermostat EXCEPT
          !.TargetHeatingCoolingState = value,
          !.TargetTemperature =
             IF value = HEAT
             THEN toCelsius(device.changeableValues.heatSetpoint,
                            Thermostat.TemperatureDisplayUnits)
             ELSE toCelsius(device.changeableValues.coolSetpoint,
                            Thermostat.TemperatureDisplayUnits)]
  /\ Service' = [Service EXCEPT !.TargetTemperature = Thermostat'.TargetTemperature]
  /\ IF modeChanged(value)
     THEN doThermostatUpdate_next("TargetHeatingCoolingState", value)
     ELSE UNCHANGED <<thermostatUpdateInProgress, debounce, burst>>
  /\ UNCHANGED unitsTimer

setHeatingThresholdTemperature(value) ==
  /\ SetterFrame("HeatingThresholdTemperature", value)
  /\ Thermostat' = [Thermostat EXCEPT !.HeatingThresholdTemperature = value]
  /\ doThermostatUpdate_next("HeatingThresholdTemperature", value)
  /\ UNCHANGED <<Service, unitsTimer>>

setCoolingThresholdTemperature(value) ==
  /\ SetterFrame("CoolingThresholdTemperature", value)
  /\ Thermostat' = [Thermostat EXCEPT !.CoolingThresholdTemperature = value]
  /\ doThermostatUpdate_next("CoolingThresholdTemperature", value)
  /\ UNCHANGED <<Service, unitsTimer>>

setTargetTemperature(value) ==
  /\ SetterFrame("TargetTemperature", value)
  /\ Thermostat' = [Thermostat EXCEPT !.TargetTemperature = value]
  /\ doThermostatUpdate_next("TargetTemperature", value)
  /\ UNCHANGED <<Service, unitsTimer>>

\* the handler only arms a timer that writes the mirror's units back to the host
setTemperatureDisplayUnits(value) ==
  /\ SetterFrame("TemperatureDisplayUnits", value)
  /\ unitsTimer' = TRUE
  /\ UNCHANGED <<Thermostat, Service, thermostatUpdateInProgress, debounce, burst>>

TemperatureDisplayUnitsTimeout ==
  /\ unitsTimer
  /\ unitsTimer' = FALSE
  /\ Service' = [Service EXCEPT !.TemperatureDisplayUnits = Thermostat.TemperatureDisplayUnits]
  /\ UNCHANGED <<device, Thermostat, thermostatSetpointStatus, thermostatUpdateInProgress,
                 debounce, pollSkipping, inflight, timers, sent, hist, burst, lastSet,
                 lastFlush, workload, notAdapter>>

\* ---------------------------------------------- thermostats.ts: push path
\* Thermostats.pushChanges up to its `await request(...)`: the payload is built
\* from the mirror and the POST is issued
pushChanges(by, depth) ==
  /\ BagCardinality(inflight) < MaxInFlight
  /\ thermostatSetpointStatus' =
       IF device.deviceModel = "Round" THEN thermostatSetpointStatus
       ELSE pushChangesthermostatSetpointStatus(thermostatSetpointStatus)
  /\ sent' = PushPayload(device, Thermostat, thermostatSetpointStatus)
  /\ inflight' = inflight (+) SetToBag({Request("pushChanges", by, depth)})

\* the debounce timer of the doThermostatUpdate pipeline expires
DebounceFire ==
  /\ debounce > 0
  /\ debounce' = debounce - 1
  /\ pushChanges("debounce", 0)
  /\ lastFlush' = burst
  /\ burst' = NoBurst
  /\ UNCHANGED <<device, Thermostat, Service, thermostatUpdateInProgress, pollSkipping,
                 timers, unitsTimer, hist, lastSet, workload, notAdapter>>

PushOutcomes == {"ok", "httpError", "networkError"}

\* the statuses the vendor answers with: 401, and the client request errors
Unauthorized == 401
ClientErrors == {400, 403, 404, 406, 415, 422}

\* the error statuses the vendor is made to answer with: 401, one client
\* error that deviceBase.statusCode has a case for and one it has none for
ErrorStatuses == {Unauthorized, 400, 422}

\* the status an answer of the given outcome can carry; a request that failed
\* on the network has none
Statuses(outcome) ==
  CASE outcome = "ok"           -> {200}
    [] outcome = "networkError" -> {0}
    [] OTHER                    -> ErrorStatuses

\* deviceBase.statusCode: logs the status, by category, and returns
statusCodeCategory(status) ==
  IF status = Unauthorized THEN "unauthorized"
  ELSE IF status \in ClientErrors THEN "client"
  ELSE "none"

\* what makes the try block of pushChanges or refreshStatus throw: a request
\* that failed, or an answer whose body body.json() cannot parse
thrown(outcome) == outcome \in {"networkError", "invalidBody"}

\* a catch that arms the retry timer whatever the configuration
pushRetryAlways == TRUE

\* the catch of pushChanges arms a retry timer when device.retry is set
pushRetry == device.retry

\* the subscriber of doThermostatUpdate arms the follow-up refresh once the
\* pushChanges call it awaited has returned; a retry timer's call arms none
followUp(by) == by = "debounce"

\* the POST of a pushChanges call is answered (or fails); the rest of pushChanges
\* runs, and then the rest of the subscriber that awaited it
PushResponse(r, outcome, status) ==
  LET failed   == thrown(outcome)
      retry    == failed /\ pushRetry
      t1       == IF retry
                  THEN timers (+) SetToBag({Timer("pushChanges", "retry", r.depth + 1)})
                  ELSE timers
      t2       == IF followUp(r.by)
                  THEN t1 (+) SetToBag({Timer("refreshStatus", "followup", 0)})
                  ELSE t1
  IN /\ r \in BagToSet(inflight)
     /\ r.op = "pushChanges"
     /\ outcome # "ok" => workload.failures > 0
     /\ failed => hist.failures < workload.failures
     /\ BagCardinality(t2) <= MaxTimers
     /\ inflight' = inflight (-) SetToBag({r})
     /\ timers' = t2
     /\ Service' = IF failed THEN apiError(Service)
                   ELSE updateHomeKitCharacteristics(Service, Thermostat)
     /\ thermostatUpdateInProgress' =
          IF r.by = "debounce" THEN FALSE ELSE thermostatUpdateInProgress
     /\ hist' = [hist EXCEPT
                   !.failures = IF failed THEN @ + 1 ELSE @,
                   !.pushFailures = IF failed THEN @ + 1 ELSE @,
                   !.followUpOwed = IF outcome = "ok" THEN TRUE ELSE @,
                   !.answer = statusCodeCategory(status)]
     /\ UNCHANGED <<device, Thermostat, thermostatSetpointStatus, debounce, pollSkipping,
                    unitsTimer, sent, burst, lastSet, lastFlush, workload, notAdapter>>

\* -------------------------------------------- thermostats.ts: refresh path
\* a tick of interval(refreshRate).pipe(skipWhile(flag)): refreshStatus is called
\* unless skipWhile is still skipping
PollTick ==
  LET skipping == skipWhile(pollSkipping, thermostatUpdateInProgress)
  IN /\ hist.pollTicks < workload.pollTicks
     /\ pollSkipping' = skipping
     /\ IF skipping
        THEN /\ inflight' = inflight
             /\ hist' = [hist EXCEPT !.pollTicks = @ + 1, !.answer = "none"]
        ELSE /\ BagCardinality(inflight) < MaxInFlight
             /\ inflight' = inflight (+) SetToBag({Request("refreshStatus", "poll", 0)})
             /\ hist' = [hist EXCEPT !.pollTicks = @ + 1, !.answer = "none"]
     /\ UNCHANGED <<device, Thermostat, Service, thermostatSetpointStatus,
                    thermostatUpdateInProgress, debounce, timers, unitsTimer, sent,
                    burst, lastSet, lastFlush, workload, notAdapter>>

\* the GET is answered with the device, with an error status and a JSON body
\* that describes the error, with an error status and a body that is no JSON,
\* or not at all
RefreshOutcomes == {"ok", "errorBody", "invalidBody", "networkError"}

\* only the device of an "ok" answer has a mode
AnswerModes(outcome) == IF outcome = "ok" THEN VendorModes ELSE {"Heat"}

\* the part of parseStatus that reads the fan's status
parseStatusFan(fan, status) ==
  CASE status = "Auto"      -> [Active |-> INACTIVE, TargetFanState |-> FanAUTO]
    [] status = "On"        -> [Active |-> ACTIVE, TargetFanState |-> MANUAL]
    [] status = "Circulate" -> [Active |-> INACTIVE, TargetFanState |-> MANUAL]
    [] OTHER                -> fan

\* the GET of a refreshStatus call is answered (or fails); the rest of
\* refreshStatus runs
RefreshResponse(r, outcome, status, mode) ==
  LET failed == thrown(outcome)
      retry  == failed /\ device.retry
  IN /\ r \in BagToSet(inflight)
     /\ r.op = "refreshStatus"
     /\ outcome # "ok" => workload.failures > 0
     /\ failed => hist.failures < workload.failures
     /\ retry => BagCardinality(timers) < MaxTimers
     /\ inflight' = inflight (-) SetToBag({r})
     /\ timers' = IF retry
                  THEN timers (+) SetToBag({Timer("refreshStatus", "retry", r.depth + 1)})
                  ELSE timers
     /\ Thermostat' =
          CASE outcome = "ok"        -> parseStatus(Thermostat, device,
                                                    VendorStatus(device.units, mode))
            [] outcome = "errorBody" -> parseStatusErrorBody(Thermostat)
            [] OTHER                 -> Thermostat
     /\ Service' = IF failed THEN apiError(Service) ELSE Service
     /\ hist' = [hist EXCEPT
                   !.failures = IF failed THEN @ + 1 ELSE @,
                   !.unhandled = IF outcome = "errorBody" THEN 1 ELSE @,
                   !.answer = statusCodeCategory(status)]
     /\ Fan' = IF outcome = "ok" /\ fanConfigured THEN parseStatusFan(Fan, fanStatus) ELSE Fan
     /\ UNCHANGED <<device, thermostatSetpointStatus, thermostatUpdateInProgress, debounce,
                    pollSkipping, unitsTimer, sent, burst, lastSet, lastFlush, workload, notFan,
                    fanConfigured, fanStatus, fanUpdateInProgress, fanDebounce, fanInflight,
                    fanTimers, fanSent, fanHist>>

\* a tick of a one-shot interval(...).pipe(skipWhile(flag), take(1)) timer that
\* passes: the retry or the follow-up refresh runs
TimerFire(t) ==
  /\ t \in BagToSet(timers)
  /\ ~thermostatUpdateInProgress
  /\ timers' = timers (-) SetToBag({t})
  /\ IF t.op = "pushChanges"
     THEN pushChanges("retry", t.depth)
     ELSE /\ BagCardinality(inflight) < MaxInFlight
          /\ inflight' = inflight (+) SetToBag({Request("refreshStatus", t.kind, t.depth)})
          /\ UNCHANGED <<thermostatSetpointStatus, sent>>
  /\ hist' = [hist EXCEPT !.followUpOwed = IF t.kind = "followup" THEN FALSE ELSE @,
                          !.answer = "none"]
  /\ UNCHANGED <<device, Thermostat, Service, thermostatUpdateInProgress, debounce,
                 pollSkipping, unitsTimer, burst, lastSet, lastFlush, workload, notAdapter>>

\* ------------------------------------------ platform.ts: the sensor cache
\* ResidePlatform.normalizeSensorDate of the rooms of one group
normalizeSensorDate(group) == 100 + group

\* a test that already misses at the instant of expiry
CacheMissInclusive(id) == ~sensorData[id].present \/ sensorData[id].timestamp <= clock

\* the test of getCurrentSensorData: no entry, or an entry that has expired
CacheMiss(id) == ~sensorData[id].present \/ sensorData[id].timestamp < clock

\* the expiry time of the entry a call finds, -1 when it finds none
CacheEntryExpiry(id) == IF sensorData[id].present THEN sensorData[id].timestamp ELSE 0 - 1

\* an entry that has expired the moment it is stored
cacheExpiryAtOnce(stored) == stored

\* the timestamp of a new entry: Date.now() + 45000
cacheExpiry(stored) == stored + CacheTTL

\* getCurrentSensorData up to its `await request(...)`, or to its return on a hit
getCurrentSensorData(id, group) ==
  /\ Len(cacheHist) < MaxCalls
  /\ IF CacheMiss(id)
     THEN /\ fetches' = fetches (+) SetToBag({[id |-> id, group |-> group, call |-> Len(cacheHist) + 1]})
          /\ cacheHist' = Append(cacheHist, [id |-> id, group |-> group, at |-> clock,
                                             entry |-> CacheEntryExpiry(id),
                                             open |-> {f.call : f \in BagToSet(fetches)},
                                             fetched |-> TRUE, done |-> FALSE,
                                             ok |-> FALSE, doneAt |-> 0 - 1,
                                             returned |-> 0])
     ELSE /\ fetches' = fetches
          /\ cacheHist' = Append(cacheHist, [id |-> id, group |-> group, at |-> clock,
                                             entry |-> CacheEntryExpiry(id),
                                             open |-> {f.call : f \in BagToSet(fetches)},
                                             fetched |-> FALSE, done |-> TRUE,
                                             ok |-> TRUE, doneAt |-> clock,
                                             returned |-> sensorData[id].data])
  /\ UNCHANGED <<clock, sensorData, notCache>>

\* the fetch of a getCurrentSensorData call is answered: the entry is stored and
\* the stored data returned; or it fails and the call rejects
SensorFetchResponse(f, ok) ==
  /\ f \in BagToSet(fetches)
  /\ fetches' = fetches (-) SetToBag({f})
  /\ sensorData' =
       IF ok THEN [sensorData EXCEPT ![f.id] = [present |-> TRUE,
                                               timestamp |-> cacheExpiry(clock),
                                               data |-> normalizeSensorDate(f.group)]]
       ELSE sensorData
  /\ cacheHist' = [cacheHist EXCEPT ![f.call].done = TRUE,
                                    ![f.call].ok = ok,
                                    ![f.call].doneAt = clock,
                                    ![f.call].returned =
                                       IF ok THEN sensorData'[f.id].data ELSE 0 - 1]
  /\ UNCHANGED <<clock, notCache>>

\* time passes
ClockTick ==
  /\ clock < MaxClockSteps * ClockStep
  /\ clock' = clock + ClockStep
  /\ UNCHANGED <<sensorData, fetches, cacheHist, notCache>>

\* ------------------------------------------------ platform.ts: discovery
\* discoverlocations is answered: the list of locations, or a status other than
\* 200, which it throws and discoverDevices catches
discoverlocations(statusCode) ==
  /\ discovery = "start"
  /\ discovery' = IF statusCode # 200 THEN "noLocations"
                  ELSE IF todo = <<>> THEN "done" ELSE "running"
  /\ UNCHANGED <<todo, config, accessories, hostAccessories, published, adapters, visited,
                 notDiscovery>>

\* ResideoPlatform.registerDevice
registerDevice(options) ==
  IF ~options.hide_roomsensor THEN TRUE
  ELSE IF options.roompriority THEN TRUE
  ELSE IF ~options.hide_device THEN TRUE
  ELSE FALSE

\* createThermostat never finds the accessory
existingAccessoryNever(uuid) == FALSE

\* createThermostat: this.accessories.find(accessory => accessory.UUID === uuid)
existingAccessory(uuid) == uuid \in accessories

\* ResideoPlatform.createThermostat for the device d
createThermostat(d) ==
  LET uuid == generate(d.deviceID, d.deviceClass)
      options == config[d.deviceID]
  IN IF existingAccessory(uuid)
     THEN IF registerDevice(options)
          THEN /\ adapters' = adapters (+) SetToBag({uuid})
               /\ UNCHANGED <<accessories, hostAccessories, published>>
          ELSE /\ hostAccessories' = hostAccessories (-) SetToBag({uuid})
               /\ UNCHANGED <<accessories, published, adapters>>
     ELSE IF registerDevice(options)
          THEN /\ adapters' = adapters (+) SetToBag({uuid})
               /\ IF options.external
                  THEN /\ published' = published (+) SetToBag({uuid})
                       /\ UNCHANGED hostAccessories
                  ELSE /\ hostAccessories' = hostAccessories (+) SetToBag({uuid})
                       /\ UNCHANGED published
               /\ accessories' = accessories \cup {uuid}
          ELSE UNCHANGED <<accessories, hostAccessories, published, adapters>>

\* one turn of the loops of discoverDevices: deviceClass(location, device) for
\* the next device.  An exception of createThermostat leaves both loops through
\* the catch of discoverDevices; one of discoverRoomSensors is caught in place
deviceClass ==
  /\ discovery = "running"
  /\ todo # <<>>
  /\ LET d == Head(todo)
         \* device.deviceModel.startsWith of thermostatFirmware...Accessory throws
         \* inside createThermostat, before the accessory is touched
         thrownInside == d.fault = "throws" /\ registerDevice(config[d.deviceID])
     IN /\ IF thrownInside
           THEN UNCHANGED <<accessories, hostAccessories, published, adapters, visited>>
           ELSE /\ createThermostat(d)
                /\ visited' = visited \cup
                                {[deviceID |-> d.deviceID, deviceClass |-> d.deviceClass]}
        \* device.deviceModel.startsWith('T9') of deviceClass throws after it
        /\ IF d.fault = "throws"
           THEN /\ discovery' = "failed"
                /\ UNCHANGED todo
           ELSE /\ todo' = Tail(todo)
                /\ discovery' = IF Tail(todo) = <<>> THEN "done" ELSE "running"
  /\ UNCHANGED <<config, notDiscovery>>

NextDiscovery ==
  \/ \E statusCode \in {200, 500} : discoverlocations(statusCode)
  \/ deviceClass

\* ---------------------------------------------------- platform.ts: token
\* getAccessToken up to its request: the POST to TokenURL leaves when a
\* consumerSecret is configured; without one result stays undefined, reading
\* result.access_token throws and the catch logs it
getAccessToken ==
  /\ exchanges' = IF credentials.consumerSecret
                  THEN exchanges (+) SetToBag({[refresh_token |-> credentials.refreshToken]})
                  ELSE exchanges
  /\ tokenHist' = [tokenHist EXCEPT !.calls = @ + 1, !.lastCall = now]

\* a refreshAccessToken that leaves the timer it holds running
clearIntervalNever(held, active) == active

\* if (this.refreshInterval) clearInterval(this.refreshInterval)
clearInterval(held, active) ==
  IF held # NoInterval THEN active (-) SetToBag({held}) ELSE active

\* refreshAccessToken: called by didFinishLaunching, and by an adapter whose fan
\* or room-priority push was rejected
refreshAccessToken ==
  /\ tokenHist.calls < MaxTokenCalls
  /\ BagCardinality(exchanges) < MaxExchanges
  /\ refreshInterval' = now + refreshPeriod
  /\ intervals' = clearInterval(refreshInterval, intervals) (+) SetToBag({now + refreshPeriod})
  /\ getAccessToken
  /\ UNCHANGED <<credentials, configStore, now, notToken>>

\* the interval of refreshAccessToken fires
RefreshIntervalFire ==
  /\ BagIn(now, intervals)
  /\ BagCardinality(exchanges) < MaxExchanges
  /\ intervals' = (intervals (-) SetToBag({now})) (+) SetToBag({now + refreshPeriod})
  /\ refreshInterval' = IF refreshInterval = now THEN now + refreshPeriod ELSE refreshInterval
  /\ getAccessToken
  /\ UNCHANGED <<credentials, configStore, now, notToken>>

\* time passes, never past the moment the interval is due
TokenTick ==
  /\ refreshInterval # NoInterval
  /\ now + TokenStep <= MaxTokenTicks * TokenStep
  /\ \A due \in BagToSet(intervals) : now + TokenStep <= due
  /\ now' = now + TokenStep
  /\ UNCHANGED <<credentials, configStore, exchanges, refreshInterval, intervals, tokenHist,
                 notToken>>

\* getAccessToken never sees a new refresh token
refreshTokenChangedNever(result, held) == FALSE

\* getAccessToken: result.refresh_token !== this.config.credentials.refreshToken
refreshTokenChanged(result, held) == result # held

\* updateRefreshToken: writes the token to config.json; an absent token throws
\* inside its own try and leaves the file alone
updateRefreshToken(newRefreshToken) ==
  IF newRefreshToken = Undefined THEN configStore ELSE newRefreshToken

TokenAnswers ==
  { [outcome |-> "ok", access_token |-> a, refresh_token |-> r] :
      a \in AccessTokens, r \in RefreshTokens }
  \cup { [outcome |-> o, access_token |-> Undefined, refresh_token |-> Undefined] :
           o \in {"errorBody", "networkError"} }

\* the vendor answers a token request, or the request fails: the rest of
\* getAccessToken runs.  The status of the answer is not looked at: an error
\* body is read like a grant, its missing fields as undefined
TokenResponse(x, result) ==
  /\ x \in BagToSet(exchanges)
  /\ exchanges' = exchanges (-) SetToBag({x})
  /\ IF result.outcome = "networkError"
     THEN UNCHANGED <<credentials, configStore>>
     ELSE /\ credentials' = [credentials EXCEPT !.accessToken = result.access_token,
                                                !.refreshToken = result.refresh_token]
          /\ configStore' = IF refreshTokenChanged(result.refresh_token, credentials.refreshToken)
                            THEN updateRefreshToken(result.refresh_token)
                            ELSE configStore
  /\ tokenHist' = [tokenHist EXCEPT !.answer = [outcome |-> result.outcome,
                                                access_token |-> result.access_token,
                                                refresh_token |-> result.refresh_token,
                                                held |-> credentials.refreshToken]]
  /\ UNCHANGED <<refreshInterval, intervals, now, notToken>>

NextToken ==
  \/ refreshAccessToken
  \/ RefreshIntervalFire
  \/ TokenTick
  \/ \E x \in BagToSet(exchanges), result \in TokenAnswers : TokenResponse(x, result)

\* ---------------------------------------------- utils.ts and constructors
\* toCelsius(value, unit)
CallToCelsius ==
  /\ args.fn = "toCelsius" /\ ~returned.done
  /\ returned' = [done |-> TRUE, value |-> toCelsius(args.value, args.unit)]
  /\ UNCHANGED <<args, notCall>>

\* a setpoint read from the vendor is shown in Celsius, and what is shown is
\* sent back: toFahrenheit(toCelsius(value, unit), unit)
CallToFahrenheit ==
  /\ args.fn = "toFahrenheit" /\ ~returned.done
  /\ returned' = [done |-> TRUE, shown |-> toCelsius(args.value, args.unit),
                value |-> toFahrenheit(toCelsius(args.value, args.unit), args.unit)]
  /\ UNCHANGED <<args, notCall>>

\* Thermostats.ResideoMode for a target state, and HomeKitModes[mode] of
\* parseStatus for the string it gave
CallResideoMode ==
  /\ args.fn = "ResideoMode" /\ ~returned.done
  /\ returned' = [done |-> TRUE, mode |-> ResideoMode(args.state),
                back |-> HomeKitModes(ResideoMode(args.state))]
  /\ UNCHANGED <<args, notCall>>

\* a constructor that offers AUTO whatever the device allows
showAutoAlways(show_auto) == TRUE

\* device.thermostat?.show_auto
showAuto(show_auto) == show_auto

\* this.device.allowedModes?.includes(mode)
includes(allowedModes, mode) ==
  IF ~allowedModes.defined THEN FALSE ELSE mode \in allowedModes.modes

\* the validValues the constructor gives TargetHeatingCoolingState
TargetState(allowedModes, show_auto) ==
  LET t1 == IF includes(allowedModes, "Cool") THEN <<COOL>> ELSE <<>>
      t2 == IF includes(allowedModes, "Heat") THEN Append(t1, HEAT) ELSE t1
      t3 == IF includes(allowedModes, "Off") THEN Append(t2, OFF) ELSE t2
  IN IF includes(allowedModes, "Auto") \/ showAuto(show_auto) THEN Append(t3, AUTO) ELSE t3

CallTargetState ==
  /\ args.fn = "TargetState" /\ ~returned.done
  /\ returned' = [done |-> TRUE, validValues |-> TargetState(args.allowedModes, args.show_auto)]
  /\ UNCHANGED <<args, notCall>>

\* a check of the refresh rate that lets 29 pass
refreshRateTooLowBelow29(refreshRate) == refreshRate # UndefNum /\ refreshRate < 29

\* this.config.options.refreshRate < 30: undefined compares false
refreshRateTooLow(refreshRate) == refreshRate # UndefNum /\ refreshRate < 30

\* ResideoPlatform.verifyConfig: what it throws, and the refresh rate it leaves
verifyConfig(config_) ==
  LET ok(rate) == [thrown |-> "none", refreshRate |-> rate]
      throw(message, rate) == [thrown |-> message, refreshRate |-> rate]
      rate == config_.refreshRate
      rate2 == IF rate \in {UndefNum, 0} THEN 120 ELSE rate
  IN IF config_.devices = "noClass" THEN throw("Device Type", rate)
     ELSE IF config_.devices = "noID" THEN throw("Device ID", rate)
     ELSE IF refreshRateTooLow(rate) THEN throw("Refresh Rate must be above 30 seconds.", rate)
     ELSE IF ~config_.consumerKey THEN throw("Missing consumerKey", rate2)
     ELSE IF ~config_.refreshToken THEN throw("Missing refreshToken", rate2)
     ELSE ok(rate2)

CallVerifyConfig ==
  /\ args.fn = "verifyConfig" /\ ~returned.done
  /\ returned' = [done |-> TRUE] @@ verifyConfig(args)
  /\ UNCHANGED <<args, notCall>>

\* deviceBase.getDeviceRateSettings: the first refreshRate that is neither
\* undefined nor null, of the room sensor's, the room priority's, the device
\* entry's and the platform's
getDeviceRateSettings(device_) ==
  IF device_.roomsensor # UndefNum THEN device_.roomsensor
  ELSE IF device_.roompriority # UndefNum THEN device_.roompriority
  ELSE IF device_.refreshRate # UndefNum THEN device_.refreshRate
  ELSE IF device_.options # UndefNum THEN device_.options
  ELSE 120

\* the constructor of an adapter that reads deviceRefreshRate: the period of
\* its poll interval, in ms
CallGetDeviceRateSettings ==
  /\ args.fn = "getDeviceRateSettings" /\ ~returned.done
  /\ returned' = [done |-> TRUE, deviceRefreshRate |-> getDeviceRateSettings(args),
                  period |-> getDeviceRateSettings(args) * 1000]
  /\ UNCHANGED <<args, notCall>>

NextCall ==
  \/ CallToCelsius
  \/ CallToFahrenheit
  \/ CallResideoMode
  \/ CallTargetState
  \/ CallVerifyConfig
  \/ CallGetDeviceRateSettings

\* ---------------------------------------------------------- valve.ts
\* Valve.setActive: writes the mirror and emits on doValveUpdate, whose tap
\* sets the flag and whose debounceTime keeps one emission
ValveSetActive(value) ==
  /\ valveHist.setCalls < MaxSetCalls
  /\ Valve' = [Valve EXCEPT !.Active = value]
  /\ valveUpdateInProgress' = TRUE
  /\ valveDebounce' = debounceTime(valveDebounce)
  /\ valveHist' = [valveHist EXCEPT !.setCalls = @ + 1, !.commanded = value]
  /\ UNCHANGED <<valveService, valvePollSkipping, valveInflight, valveTimers, valveRetry,
                 notValve>>

\* the debounce window of doValveUpdate ends: the subscriber calls pushChanges,
\* which builds the payload from the mirror and sends the POST
ValveDebounceFire ==
  /\ valveDebounce > 0
  /\ BagCardinality(valveInflight) < MaxInFlight
  /\ valveDebounce' = valveDebounce - 1
  /\ valveInflight' = valveInflight (+)
                        SetToBag({[op |-> "pushChanges",
                                   state |-> IF Valve.Active = ACTIVE THEN "open" ELSE "closed",
                                   after |-> valveHist.setCalls]})
  /\ UNCHANGED <<Valve, valveService, valveUpdateInProgress, valvePollSkipping, valveTimers,
                 valveRetry, valveHist, notValve>>

\* the catch of Valve.pushChanges: resideoAPIError and two log lines
valvePushError(svc) == svc

\* Valve.apiError
valveApiError(svc) == [svc EXCEPT !.Active = ErrorMarker]

ValvePushOutcomes == {"ok", "httpError", "networkError"}

\* the POST is answered, or makeRequest rejects; the rest of pushChanges runs,
\* then the rest of the subscriber: the follow-up timer, and the flag
ValvePushResponse(r, outcome) ==
  /\ r \in BagToSet(valveInflight)
  /\ r.op = "pushChanges"
  /\ BagCardinality(valveTimers) < MaxTimers
  /\ valveInflight' = valveInflight (-) SetToBag({r})
  /\ valveService' = IF outcome = "networkError" THEN valvePushError(valveService)
                     ELSE valveService
  /\ valveTimers' = valveTimers (+) SetToBag({[op |-> "refreshStatus", kind |-> "followup"]})
  /\ valveUpdateInProgress' = FALSE
  /\ valveHist' = [valveHist EXCEPT !.answered = [op |-> "pushChanges", outcome |-> outcome],
                                    !.pushed = IF outcome = "ok"
                                               THEN [state |-> r.state, after |-> r.after]
                                               ELSE @]
  /\ UNCHANGED <<Valve, valveDebounce, valvePollSkipping, valveRetry, notValve>>

\* a tick of the valve's poll interval
ValvePollTick ==
  LET skipping == skipWhile(valvePollSkipping, valveUpdateInProgress)
  IN /\ valveHist.pollTicks < MaxPollTicks
     /\ valvePollSkipping' = skipping
     /\ skipping \/ BagCardinality(valveInflight) < MaxInFlight
     /\ valveInflight' = IF skipping THEN valveInflight
                         ELSE valveInflight (+)
                                SetToBag({[op |-> "refreshStatus", state |-> Undefined,
                                           after |-> valveHist.pushed.after]})
     /\ valveHist' = [valveHist EXCEPT !.pollTicks = @ + 1]
     /\ UNCHANGED <<Valve, valveService, valveUpdateInProgress, valveDebounce, valveTimers,
                    valveRetry, notValve>>

ValveRefreshOutcomes == {"answered", "networkError"}

\* the GET is answered, or makeRequest rejects.  makeRequest returns
\* { data, statusCode }, so response.json() of refreshStatus throws for every
\* answer: either way the catch runs, arms the retry and calls apiError
ValveRefreshResponse(r, outcome) ==
  /\ r \in BagToSet(valveInflight)
  /\ r.op = "refreshStatus"
  /\ valveRetry => BagCardinality(valveTimers) < MaxTimers
  /\ valveInflight' = valveInflight (-) SetToBag({r})
  /\ valveTimers' = IF valveRetry
                    THEN valveTimers (+) SetToBag({[op |-> "refreshStatus", kind |-> "retry"]})
                    ELSE valveTimers
  /\ valveService' = valveApiError(valveService)
  /\ valveHist' = [valveHist EXCEPT !.answered = [op |-> "refreshStatus", outcome |-> outcome]]
  /\ UNCHANGED <<Valve, valveUpdateInProgress, valveDebounce, valvePollSkipping, valveRetry,
                 notValve>>

\* a one-shot interval(...).pipe(skipWhile(flag), take(1)) of the valve passes
\* a tick: refreshStatus is called
ValveTimerFire(t) ==
  /\ t \in BagToSet(valveTimers)
  /\ ~valveUpdateInProgress
  /\ BagCardinality(valveInflight) < MaxInFlight
  /\ valveTimers' = valveTimers (-) SetToBag({t})
  /\ valveInflight' = valveInflight (+)
                        SetToBag({[op |-> "refreshStatus", state |-> Undefined,
                                   after |-> valveHist.pushed.after]})
  /\ UNCHANGED <<Valve, valveService, valveUpdateInProgress, valveDebounce, valvePollSkipping,
                 valveRetry, valveHist, notValve>>

NextValve ==
  \/ \E value \in {INACTIVE, ACTIVE} : ValveSetActive(value)
  \/ ValveDebounceFire
  \/ \E r \in BagToSet(valveInflight), o \in ValvePushOutcomes : ValvePushResponse(r, o)
  \/ ValvePollTick
  \/ \E r \in BagToSet(valveInflight), o \in ValveRefreshOutcomes : ValveRefreshResponse(r, o)
  \/ \E t \in BagToSet(valveTimers) : ValveTimerFire(t)

\* ------------------------------ the valve adapter built on platform.axios
\* the bodies the vendor answers a GET of the valve with
VendorValves == [isAlive : BOOLEAN, valveStatus : {"Open", "Closed"}]

\* Valve.parseStatus: Active from device.isAlive, InUse from
\* device.actuatorValve.valveStatus
parseStatusValve(valve, device_) ==
  [valve EXCEPT !.Active = IF device_.isAlive THEN ACTIVE ELSE INACTIVE,
                !.InUse = IF device_.valveStatus = "Open" THEN IN_USE ELSE NOT_IN_USE]

\* axios.get resolves with the body: refreshStatus parses it into the mirror
\* and updateHomeKitCharacteristics writes the mirror to the host
ValveAxiosRefreshResponse(r, device_) ==
  /\ r \in BagToSet(valveInflight)
  /\ r.op = "refreshStatus"
  /\ valveInflight' = valveInflight (-) SetToBag({r})
  /\ Valve' = parseStatusValve(Valve, device_)
  /\ valveService' = Valve'
  /\ valveHist' = [valveHist EXCEPT !.answered = [op |-> "refreshStatus", outcome |-> "parsed",
                                                   after |-> r.after,
                                                   isAlive |-> device_.isAlive,
                                                   valveStatus |-> device_.valveStatus]]
  /\ UNCHANGED <<valveUpdateInProgress, valveDebounce, valvePollSkipping, valveTimers,
                 valveRetry, notValve>>

\* axios rejects on an error status and on a network failure: the catch of
\* refreshStatus and of pushChanges runs as in the undici build
NextValveAxios ==
  \/ \E value \in {INACTIVE, ACTIVE} : ValveSetActive(value)
  \/ ValveDebounceFire
  \/ \E r \in BagToSet(valveInflight), o \in {"ok", "networkError"} : ValvePushResponse(r, o)
  \/ ValvePollTick
  \/ \E r \in BagToSet(valveInflight), d \in VendorValves : ValveAxiosRefreshResponse(r, d)
  \/ \E r \in BagToSet(valveInflight) : ValveRefreshResponse(r, "networkError")
  \/ \E t \in BagToSet(valveTimers) : ValveTimerFire(t)

\* ------------------------------------- thermostats.ts: the fan's pipeline
\* the body of the PUT that pushFanChanges sends
fanPayload(fan) ==
  IF fan.TargetFanState = FanAUTO THEN "Auto"
  ELSE IF fan.TargetFanState = MANUAL /\ fan.Active = ACTIVE THEN "On"
  ELSE IF fan.TargetFanState = MANUAL /\ fan.Active = INACTIVE THEN "Circulate"
  ELSE "Auto"

FanRequest(by, mode) == [op |-> "pushFanChanges", by |-> by, mode |-> mode]

\* doFanUpdate.next(): the tap sets the fan's flag, debounceTime restarts
doFanUpdate_next ==
  /\ fanUpdateInProgress' = TRUE
  /\ fanDebounce' = debounceTime(fanDebounce)

\* Thermostats.setActive of the fan service
setActive(value) ==
  /\ fanConfigured
  /\ fanHist.setCalls < MaxSetCalls
  /\ Fan' = [Fan EXCEPT !.Active = value]
  /\ doFanUpdate_next
  /\ fanHist' = [fanHist EXCEPT !.setCalls = @ + 1]
  /\ UNCHANGED <<fanConfigured, fanStatus, fanInflight, fanTimers, fanSent, adapterVars, notFan>>

\* Thermostats.setTargetFanState
setTargetFanState(value) ==
  /\ fanConfigured
  /\ fanHist.setCalls < MaxSetCalls
  /\ Fan' = [Fan EXCEPT !.TargetFanState = value]
  /\ doFanUpdate_next
  /\ fanHist' = [fanHist EXCEPT !.setCalls = @ + 1]
  /\ UNCHANGED <<fanConfigured, fanStatus, fanInflight, fanTimers, fanSent, adapterVars, notFan>>

\* pushFanChanges up to its PUT
pushFanChanges(by) ==
  /\ BagCardinality(fanInflight) < MaxInFlight
  /\ fanSent' = fanPayload(Fan)
  /\ fanInflight' = fanInflight (+) SetToBag({FanRequest(by, fanPayload(Fan))})

\* the debounce window of doFanUpdate ends: the subscriber calls pushFanChanges
FanDebounceFire ==
  /\ fanDebounce > 0
  /\ fanDebounce' = fanDebounce - 1
  /\ pushFanChanges("debounce")
  /\ UNCHANGED <<Fan, fanConfigured, fanStatus, fanUpdateInProgress, fanTimers, fanHist,
                 adapterVars, notFan>>

FanPushOutcomes == {"ok", "httpError", "networkError"}

\* the PUT is answered, or request rejects.  statusCode only logs, so an error
\* status is no failure.  When the subscriber of doFanUpdate awaited the call,
\* its catch (retry timer, apiError; the token exchange it starts is
\* refreshAccessToken of the platform) and its last statements run: the flag,
\* the follow-up timer.  A call made by a retry timer has nobody to catch
FanPushResponse(r, outcome) ==
  LET failed == outcome = "networkError"
      caught == failed /\ r.by = "debounce"
      t1     == IF caught /\ device.retry
                THEN fanTimers (+) SetToBag({Timer("pushFanChanges", "retry", 0)})
                ELSE fanTimers
      t2     == IF r.by = "debounce"
                THEN t1 (+) SetToBag({Timer("refreshStatus", "followup", 0)})
                ELSE t1
  IN /\ r \in BagToSet(fanInflight)
     /\ failed => fanHist.failures < MaxFailures
     /\ BagCardinality(t2) <= MaxTimers
     /\ fanInflight' = fanInflight (-) SetToBag({r})
     /\ fanStatus' = IF outcome = "ok" THEN r.mode ELSE fanStatus
     /\ fanTimers' = t2
     /\ Service' = IF caught THEN apiError(Service) ELSE Service
     /\ fanUpdateInProgress' = IF r.by = "debounce" THEN FALSE ELSE fanUpdateInProgress
     /\ fanHist' = [fanHist EXCEPT
                      !.failures = IF failed THEN @ + 1 ELSE @,
                      !.unhandled = IF failed /\ ~caught THEN @ + 1 ELSE @]
     /\ UNCHANGED <<Fan, fanConfigured, fanDebounce, fanSent, notFan>>
     /\ UNCHANGED <<device, Thermostat, thermostatSetpointStatus, thermostatUpdateInProgress,
                    debounce, pollSkipping, inflight, timers, unitsTimer, sent, hist, burst,
                    lastSet, lastFlush, workload>>

\* a one-shot interval(5000).pipe(skipWhile(thermostatUpdateInProgress), take(1))
\* armed by the subscriber of doFanUpdate passes a tick
FanTimerFire(t) ==
  /\ t \in BagToSet(fanTimers)
  /\ ~thermostatUpdateInProgress
  /\ fanTimers' = fanTimers (-) SetToBag({t})
  /\ IF t.op = "pushFanChanges"
     THEN /\ pushFanChanges("retry")
          /\ UNCHANGED inflight
     ELSE /\ BagCardinality(inflight) < MaxInFlight
          /\ inflight' = inflight (+) SetToBag({Request("refreshStatus", t.kind, 0)})
          /\ UNCHANGED <<fanSent, fanInflight>>
  /\ UNCHANGED <<Fan, fanConfigured, fanStatus, fanUpdateInProgress, fanDebounce, fanHist,
                 notFan>>
  /\ UNCHANGED <<device, Thermostat, Service, thermostatSetpointStatus,
                 thermostatUpdateInProgress, debounce, pollSkipping, timers, unitsTimer, sent,
                 hist, burst, lastSet, lastFlush, workload>>

NextCache ==
  \/ \E c \in SensorCalls : getCurrentSensorData(c[1], c[2])
  \/ \E f \in BagToSet(fetches), ok \in BOOLEAN : SensorFetchResponse(f, ok)
  \/ ClockTick

\* ------------------------------------------------------------------- Next
Next ==
  \/ \E v \in SetModes : setTargetHeatingCoolingState(v)
  \/ \E v \in SetHeatingTemps : setHeatingThresholdTemperature(v)
  \/ \E v \in SetCoolingTemps : setCoolingThresholdTemperature(v)
  \/ \E v \in SetTargetTemps : setTargetTemperature(v)
  \/ \E v \in SetUnits : setTemperatureDisplayUnits(v)
  \/ TemperatureDisplayUnitsTimeout
  \/ DebounceFire
  \/ \E r \in BagToSet(inflight), o \in PushOutcomes :
       \E st \in Statuses(o) : PushResponse(r, o, st)
  \/ PollTick
  \/ \E r \in BagToSet(inflight), o \in RefreshOutcomes : \E m \in AnswerModes(o) :
       \E st \in Statuses(o) : RefreshResponse(r, o, st, m)
  \/ \E t \in BagToSet(timers) : TimerFire(t)

Spec == Init /\ [][Next]_vars

\* the platform's cache, beside one adapter that stays as constructed
InitCacheSpec ==
  /\ Init
  /\ device.deviceModel = "T9-T10" /\ device.units = "Fahrenheit" /\ device.retry
  /\ workload.start = "fresh"

SpecCache == InitCacheSpec /\ [][NextCache]_vars

\* the platform's discovery, before any adapter has made a request
InitDiscoverySpec ==
  /\ InitAdapter /\ InitCache /\ InitDiscovery /\ NoToken /\ NoCall /\ NoValve /\ NoFan
  /\ device.deviceModel = "T9-T10" /\ device.units = "Fahrenheit" /\ device.retry
  /\ workload.start = "fresh"

SpecDiscovery == InitDiscoverySpec /\ [][NextDiscovery]_vars

\* the platform's token, with the adapters at rest
InitTokenSpec ==
  /\ InitAdapter /\ InitCache /\ NoDiscovery /\ InitToken /\ NoCall /\ NoValve /\ NoFan
  /\ device.deviceModel = "T9-T10" /\ device.units = "Fahrenheit" /\ device.retry
  /\ workload.start = "fresh"

SpecToken == InitTokenSpec /\ [][NextToken]_vars

\* the pure computations, each called once with arguments of its domain
InitCallSpec ==
  /\ InitAdapter /\ InitCache /\ NoDiscovery /\ NoToken /\ InitCall /\ NoValve /\ NoFan
  /\ device.deviceModel = "T9-T10" /\ device.units = "Fahrenheit" /\ device.retry
  /\ workload.start = "fresh"

SpecCall == InitCallSpec /\ [][NextCall]_vars

\* the valve adapter, with the thermostat adapter at rest
InitValveSpec ==
  /\ InitAdapter /\ InitCache /\ NoDiscovery /\ NoToken /\ NoCall /\ InitValve /\ NoFan
  /\ device.deviceModel = "T9-T10" /\ device.units = "Fahrenheit" /\ device.retry
  /\ workload.start = "fresh"

SpecValve == InitValveSpec /\ [][NextValve]_vars

\* the same valve, served by the build that calls platform.axios
SpecValveAxios == InitValveSpec /\ [][NextValveAxios]_vars

\* a thermostat with a fan: fan commands, the poll interval and the refreshes,
\* beside a vendor that answers every GET
NextFan ==
  \/ \E value \in {INACTIVE, ACTIVE} : setActive(value)
  \/ \E value \in {MANUAL, FanAUTO} : setTargetFanState(value)
  \/ FanDebounceFire
  \/ \E r \in BagToSet(fanInflight), o \in FanPushOutcomes : FanPushResponse(r, o)
  \/ \E t \in BagToSet(fanTimers) : FanTimerFire(t)
  \/ PollTick
  \/ \E r \in BagToSet(inflight), o \in RefreshOutcomes : \E m \in AnswerModes(o) :
       \E st \in Statuses(o) : RefreshResponse(r, o, st, m)

InitFanSpec ==
  /\ InitAdapter /\ InitCache /\ NoDiscovery /\ NoToken /\ NoCall /\ NoValve /\ InitFan
  /\ fanConfigured
  /\ device.deviceModel = "T9-T10" /\ device.units = "Fahrenheit" /\ device.retry
  /\ workload.start = "steady" /\ workload.failures = 0

SpecFan == InitFanSpec /\ [][NextFan]_vars

\* one adapter with retry enabled against a vendor that fails at most
\* workload.failures requests; the event loop runs every timer that is due and
\* every request is answered in the end
InitLive ==
  /\ Init
  /\ device.deviceModel = "T9-T10" /\ device.units = "Fahrenheit" /\ device.retry
  /\ workload = [start |-> "steady", setCalls |-> 1, pollTicks |-> 1,
                  failures |-> MaxFailures]

SpecLive ==
  /\ InitLive
  /\ [][Next]_vars
  /\ WF_vars(DebounceFire)
  /\ WF_vars(\E r \in BagToSet(inflight), o \in PushOutcomes :
               \E st \in Statuses(o) : PushResponse(r, o, st))
  /\ WF_vars(\E r \in BagToSet(inflight), o \in RefreshOutcomes : \E m \in AnswerModes(o) :
               \E st \in Statuses(o) : RefreshResponse(r, o, st, m))
  /\ WF_vars(\E t \in BagToSet(timers) : TimerFire(t))

\* ----------------------------------------------------------------- claims
\* C1: N >= 1 setter calls inside one debounce window leave one pending emission;
\* when the window closes exactly one pushChanges call is made for all of them,
\* and its payload is computed from the mirror as it is at that moment
C1_DebounceCoalesces ==
  [][ /\ debounce' \in {0, 1}
      /\ (debounce' = 1) <=> (burst' # NoBurst)
      /\ debounce' < debounce =>
            /\ Len(burst) >= 1
            /\ debounce' = 0
            /\ inflight' = inflight (+) SetToBag({Request("pushChanges", "debounce", 0)})
            /\ sent' = PushPayload(device, Thermostat', thermostatSetpointStatus) ]_vars

\* C1 witness: two setTargetTemperature calls with different values were flushed
\* by one push, and the payload carries the second value and not the first
C1_Witness ==
  /\ Len(lastFlush) = 2
  /\ lastFlush[1].name = "TargetTemperature" /\ lastFlush[2].name = "TargetTemperature"
  /\ lastFlush[1].value # lastFlush[2].value
  /\ BagCardinality(inflight) = 1
  /\ Request("pushChanges", "debounce", 0) \in BagToSet(inflight)
  /\ device.deviceModel = "Unknown"
  /\ sent.thermostatSetpoint =
       toFahrenheit(lastFlush[2].value, Thermostat.TemperatureDisplayUnits)
  /\ sent.thermostatSetpoint #
       toFahrenheit(lastFlush[1].value, Thermostat.TemperatureDisplayUnits)

\* C2: while a command is pending (from the signal until the debounced push has
\* completed) no poll tick calls refreshStatus
C2_NoPollWhilePending ==
  [][ (\/ debounce > 0
       \/ Request("pushChanges", "debounce", 0) \in BagToSet(inflight))
      => CopiesIn(Request("refreshStatus", "poll", 0), inflight')
           <= CopiesIn(Request("refreshStatus", "poll", 0), inflight) ]_vars

C4_RetriesBounded ==
  \A t \in BagToSet(timers) : t.kind = "retry" => t.depth <= deviceMaxRetries

\* C5 as stated: of two calls for one device id made within 45 s of each other
\* only one fetches, and a call made after the entry has expired fetches
C5_OneFetchPer45s ==
  \A i, j \in DOMAIN cacheHist :
    /\ (i < j /\ cacheHist[i].id = cacheHist[j].id
          /\ cacheHist[j].at - cacheHist[i].at <= CacheTTL)
         => ~(cacheHist[i].fetched /\ cacheHist[j].fetched)
    /\ (cacheHist[j].entry >= 0 /\ cacheHist[j].at > cacheHist[j].entry)
         => cacheHist[j].fetched

\* C5: a call is served from the cache exactly when it finds an entry, stored
\* when a fetch for that id succeeded, that is at most 45 s old; so a call made
\* within 45 s of the successful completion of an earlier call's fetch does
\* not fetch and returns cached data, while a call that finds no entry or an
\* older one fetches and, if the fetch succeeds, stores a new 45 s entry
C5_CachedAfterCompletedFetch ==
  /\ \A j \in DOMAIN cacheHist :
        /\ cacheHist[j].fetched <=>
              (cacheHist[j].entry < 0 \/ cacheHist[j].entry < cacheHist[j].at)
        /\ (cacheHist[j].fetched /\ cacheHist[j].done /\ cacheHist[j].ok) =>
              /\ sensorData[cacheHist[j].id].present
              /\ sensorData[cacheHist[j].id].timestamp >= cacheHist[j].doneAt + CacheTTL
              /\ cacheHist[j].returned = normalizeSensorDate(cacheHist[j].group)
  /\ \A i, j \in DOMAIN cacheHist :
        (/\ i < j /\ cacheHist[i].id = cacheHist[j].id
         /\ cacheHist[i].fetched /\ cacheHist[i].done /\ cacheHist[i].ok
         /\ i \notin cacheHist[j].open
         /\ cacheHist[j].at <= cacheHist[i].doneAt + CacheTTL)
        => /\ ~cacheHist[j].fetched
           /\ cacheHist[j].returned >= 0

\* C5 witness: a call fetched, a second call for the same id exactly 45 s after
\* that fetch completed was served from the cache, and a third call after the
\* entry had expired fetched again
C5_Witness ==
  /\ Len(cacheHist) = 3
  /\ cacheHist[1].id = cacheHist[2].id /\ cacheHist[2].id = cacheHist[3].id
  /\ cacheHist[1].fetched /\ cacheHist[1].ok
  /\ cacheHist[2].at = cacheHist[1].doneAt + CacheTTL
  /\ ~cacheHist[2].fetched /\ cacheHist[2].returned = normalizeSensorDate(cacheHist[1].group)
  /\ cacheHist[3].at > cacheHist[1].doneAt + CacheTTL
  /\ cacheHist[3].fetched /\ cacheHist[3].done /\ cacheHist[3].ok

\* C6: whatever fails inside refreshStatus or pushChanges, no rejected promise
\* is left without a handler
C6_NothingEscapes == hist.unhandled = 0

\* C7 as stated: setTargetTemperature followed at once by
\* setHeatingThresholdTemperature ends in one push whose payload carries both
\* values, whatever the mode
C7_BothValuesSent ==
  [][ (/\ debounce' < debounce
       /\ Len(burst) = 2
       /\ burst[1].name = "TargetTemperature"
       /\ burst[2].name = "HeatingThresholdTemperature")
      => LET unit == Thermostat.TemperatureDisplayUnits
             body == {sent'.heatSetpoint, sent'.coolSetpoint, sent'.thermostatSetpoint}
         IN /\ inflight' = inflight (+) SetToBag({Request("pushChanges", "debounce", 0)})
            /\ toFahrenheit(burst[1].value, unit) \in body
            /\ toFahrenheit(burst[2].value, unit) \in body ]_vars

\* C7: setTargetTemperature followed at once by setHeatingThresholdTemperature
\* ends in one push built from the mirror at that moment: in COOL the mirror's
\* TargetTemperature goes out as coolSetpoint and its HeatingThresholdTemperature
\* as heatSetpoint; in HEAT only TargetTemperature goes out (as heatSetpoint), in
\* AUTO or OFF only HeatingThresholdTemperature (as heatSetpoint), and for model
\* Unknown only TargetTemperature (as thermostatSetpoint)
C7_ValuesSentByMode ==
  [][ (/\ debounce' < debounce
       /\ Len(burst) = 2
       /\ burst[1].name = "TargetTemperature"
       /\ burst[2].name = "HeatingThresholdTemperature")
      => LET unit   == Thermostat.TemperatureDisplayUnits
             target == toFahrenheit(Thermostat.TargetTemperature, unit)
             heating == toFahrenheit(Thermostat.HeatingThresholdTemperature, unit)
             cooling == toFahrenheit(Thermostat.CoolingThresholdTemperature, unit)
             mode   == Thermostat.TargetHeatingCoolingState
         IN /\ inflight' = inflight (+) SetToBag({Request("pushChanges", "debounce", 0)})
            /\ IF device.deviceModel = "Unknown"
               THEN /\ sent'.thermostatSetpoint = target
                    /\ sent'.heatSetpoint = UndefNum /\ sent'.coolSetpoint = UndefNum
               ELSE /\ sent'.thermostatSetpoint = UndefNum
                    /\ sent'.heatSetpoint = IF mode = HEAT THEN target ELSE heating
                    /\ sent'.coolSetpoint = IF mode = COOL THEN target ELSE cooling ]_vars

\* C7 witness: in COOL the two calls were flushed by one push that carries the
\* value of both
C7_Witness ==
  /\ Len(lastFlush) = 2
  /\ lastFlush[1].name = "TargetTemperature"
  /\ lastFlush[2].name = "HeatingThresholdTemperature"
  /\ Thermostat.TargetHeatingCoolingState = COOL
  /\ device.deviceModel = "T9-T10"
  /\ BagCardinality(inflight) = 1
  /\ Request("pushChanges", "debounce", 0) \in BagToSet(inflight)
  /\ sent.coolSetpoint = toFahrenheit(lastFlush[1].value, Thermostat.TemperatureDisplayUnits)
  /\ sent.heatSetpoint = toFahrenheit(lastFlush[2].value, Thermostat.TemperatureDisplayUnits)

C9_OnlyPushPathWrites ==
  [][ /\ hist'.setCalls = hist.setCalls + 1 => (inflight' = inflight /\ sent' = sent)
      /\ \A r \in BagToSet(inflight') :
           (r.op = "pushChanges" /\ CopiesIn(r, inflight') > CopiesIn(r, inflight)) =>
             \/ r.by = "debounce" /\ debounce' = debounce - 1
             \/ /\ r.by = "retry"
                /\ CopiesIn(Timer("pushChanges", "retry", r.depth), timers')
                     = CopiesIn(Timer("pushChanges", "retry", r.depth), timers) - 1
      /\ sent' # sent => \E r \in BagToSet(inflight') :
                           r.op = "pushChanges" /\ CopiesIn(r, inflight') > CopiesIn(r, inflight) ]_vars

\* C9 witness: a setter has run and changed the mirror, nothing has been sent,
\* and the signal is waiting for its debounce timer
C9_Witness ==
  /\ hist.setCalls = 1
  /\ lastSet.name = "TargetTemperature"
  /\ Thermostat.TargetTemperature = lastSet.value
  /\ debounce = 1
  /\ inflight = EmptyBag
  /\ sent = EmptyPayload

\* C10: every push carries the mode, the heat setpoint and the cool setpoint
C10_CompletePayload ==
  sent # EmptyPayload =>
    /\ HasMode(sent)
    /\ HasNum(sent, "heatSetpoint")
    /\ HasNum(sent, "coolSetpoint")

\* C11: when a refreshStatus call has received a well-formed answer while no
\* command is pending, the mirror's target mode, thresholds, target temperature
\* and current temperature are the normalized values of that answer
C11_PollAuthoritative ==
  [][ (/\ \E r \in BagToSet(inflight) :
            r.op = "refreshStatus" /\ CopiesIn(r, inflight') = CopiesIn(r, inflight) - 1
       /\ hist'.failures = hist.failures
       /\ Thermostat'.CurrentTemperature \notin {UndefNum, NaN}
       /\ debounce = 0 /\ ~thermostatUpdateInProgress
       /\ Request("pushChanges", "debounce", 0) \notin BagToSet(inflight))
      => \E mode \in VendorModes :
           LET resp   == VendorStatus(device.units, mode)
               unit   == Thermostat'.TemperatureDisplayUnits
               target == HomeKitModes(resp.changeableValues.mode)
           IN /\ Thermostat'.TargetHeatingCoolingState = target
              /\ Thermostat'.HeatingThresholdTemperature =
                   toCelsius(resp.changeableValues.heatSetpoint, unit)
              /\ Thermostat'.CoolingThresholdTemperature =
                   toCelsius(resp.changeableValues.coolSetpoint, unit)
              /\ Thermostat'.CurrentTemperature = toCelsius(resp.indoorTemperature, unit)
              /\ Thermostat'.TargetTemperature =
                   toCelsius(IF target = HEAT THEN resp.changeableValues.heatSetpoint
                             ELSE resp.changeableValues.coolSetpoint, unit) ]_vars

\* C12: when a refreshStatus call has received a well-formed answer, every
\* host-visible characteristic equals the new mirror value
C12_HostFollowsRefresh ==
  [][ (/\ \E r \in BagToSet(inflight) :
            r.op = "refreshStatus" /\ CopiesIn(r, inflight') = CopiesIn(r, inflight) - 1
       /\ hist'.failures = hist.failures
       /\ Thermostat'.CurrentTemperature \notin {UndefNum, NaN})
      => \A f \in Fields : Service'[f] = Thermostat'[f] ]_vars

C14_AdapterIffNotHidden ==
  \A v \in visited :
    LET uuid == generate(v.deviceID, v.deviceClass)
        hidden == config[v.deviceID].hide_device
    IN /\ BagIn(uuid, adapters) <=> ~hidden
       /\ hidden => ~BagIn(uuid, hostAccessories)

\* C15: at no time is a UUID registered with the host more than once, whether
\* as a platform accessory or an external one, and a discovered device that is
\* not hidden has exactly one accessory, under generate(deviceID-deviceClass).
C15_OneAccessoryPerUUID ==
  /\ \A uuid \in BagToSet(hostAccessories) \cup BagToSet(published) :
       CopiesIn(uuid, hostAccessories) + CopiesIn(uuid, published) = 1
  /\ \A v \in visited :
       ~config[v.deviceID].hide_device =>
         LET uuid == generate(v.deviceID, v.deviceClass)
         IN /\ CopiesIn(uuid, hostAccessories) + CopiesIn(uuid, published) = 1
            /\ BagIn(uuid, adapters)

\* a device marked external whose accessory the host had cached was visited: it
\* was restored from the cache, not published a second time
C15_Witness ==
  \E v \in visited :
    LET uuid == generate(v.deviceID, v.deviceClass)
    IN /\ config[v.deviceID].external
       /\ CopiesIn(uuid, hostAccessories) = 1
       /\ CopiesIn(uuid, published) = 0
       /\ BagIn(uuid, adapters)
       /\ discovery = "done"

\* C16 as stated: when discovery has ended, the only devices left undiscovered
\* are those of the location where it failed.
C16_OtherLocationsDiscovered ==
  discovery \in {"done", "failed"} =>
    \A i \in 1..Len(todo) : todo[i].location = Head(todo).location

C18_ExchangedEveryThird ==
  refreshInterval # NoInterval => now - tokenHist.lastCall <= TokenLifetime \div 3

\* the interval has fired twice, 600 s and 1200 s after the launch
C18_Witness ==
  /\ tokenHist.calls = 3
  /\ now = 2 * (TokenLifetime \div 3)
  /\ tokenHist.lastCall = now

\* ------------------------------------------------------- error statuses
\* C19 as stated: the step in which an adapter's request, a push or a status
\* refresh, is answered with status 401 calls the platform's getAccessToken.
C19_UnauthorizedRefreshesToken ==
  [][ ( /\ BagCardinality(inflight') < BagCardinality(inflight)
        /\ hist'.answer = "unauthorized" )
      => tokenHist'.calls > tokenHist.calls ]_vars

\* C20 as stated: the step in which a push or a status refresh is answered with
\* a client request error (400, 403, 404, 406, 415 or 422) arms no retry timer,
\* whatever device.retry says.
C20_ClientErrorNotRetried ==
  [][ ( /\ BagCardinality(inflight') < BagCardinality(inflight)
        /\ hist'.answer = "client" )
      => \A t \in BagToSet(timers') :
           t.kind = "retry" => CopiesIn(t, timers') <= CopiesIn(t, timers) ]_vars

\* ------------------------------------------------------ pure computations
\* C22: the validValues a constructor gives TargetHeatingCoolingState hold AUTO
\* only if allowedModes holds 'Auto' or show_auto is set, and HEAT, COOL or OFF
\* only if allowedModes holds that mode; ['Heat','Off'] without show_auto
\* offers no AUTO.
C22_ValidValuesAllowed ==
  (args.fn = "TargetState" /\ returned.done) =>
    LET offered == {returned.validValues[i] : i \in 1..Len(returned.validValues)}
        allowed == IF args.allowedModes.defined THEN args.allowedModes.modes ELSE {}
    IN /\ AUTO \in offered => ("Auto" \in allowed \/ args.show_auto)
       /\ HEAT \in offered => "Heat" \in allowed
       /\ COOL \in offered => "Cool" \in allowed
       /\ OFF \in offered => "Off" \in allowed
       /\ offered \subseteq {OFF, HEAT, COOL, AUTO}
       /\ (allowed = {"Heat", "Off"} /\ ~args.show_auto) => AUTO \notin offered

\* the constructor ran for a device that allows Heat and Off only
C22_Witness ==
  /\ args.fn = "TargetState" /\ returned.done
  /\ args.allowedModes = [defined |-> TRUE, modes |-> {"Heat", "Off"}]
  /\ ~args.show_auto
  /\ returned.validValues = <<HEAT, OFF>>

\* C23 as stated: for every target state 0..3, ResideoMode gives one of the
\* four vendor strings, and HomeKitModes maps that string back to the state.
C23_ModeRoundTrip ==
  (args.fn = "ResideoMode" /\ returned.done) =>
    /\ returned.mode \in {"Off", "Heat", "Cool", "Auto"}
    /\ returned.back = args.state

\* C24 as stated: verifyConfig throws 'Refresh Rate must be above 30 seconds.'
\* whenever the configured refreshRate is below 30, and after a call that does
\* not throw refreshRate is at least 30, 120 when it was not configured.
C24_RefreshRateChecked ==
  (args.fn = "verifyConfig" /\ returned.done) =>
    /\ (args.refreshRate # UndefNum /\ args.refreshRate < 30)
         => returned.thrown = "Refresh Rate must be above 30 seconds."
    /\ returned.thrown = "none" =>
         /\ returned.refreshRate >= 30
         /\ args.refreshRate = UndefNum => returned.refreshRate = 120

\* C24, amended: with a configured refreshRate below 30 verifyConfig throws,
\* 'Refresh Rate must be above 30 seconds.' unless the check of the device
\* entries threw before; after a call that does not throw refreshRate is at
\* least 30, 120 when it was not configured.
C24_RefreshRateCheckedAfterDevices ==
  (args.fn = "verifyConfig" /\ returned.done) =>
    /\ (args.refreshRate # UndefNum /\ args.refreshRate < 30) =>
         IF args.devices \in {"noClass", "noID"}
         THEN returned.thrown \in {"Device Type", "Device ID"}
         ELSE returned.thrown = "Refresh Rate must be above 30 seconds."
    /\ returned.thrown = "none" =>
         /\ returned.refreshRate >= 30
         /\ args.refreshRate = UndefNum => returned.refreshRate = 120

\* verifyConfig threw for a refresh rate of 29 in a configuration whose device
\* entry is complete
C24_Witness ==
  /\ args.fn = "verifyConfig" /\ returned.done
  /\ args.refreshRate = 29 /\ args.devices = "complete"
  /\ returned.thrown = "Refresh Rate must be above 30 seconds."

\* C25: for every whole degree Fahrenheit f of the setpoint range,
\* toFahrenheit(toCelsius(f, 1), 1) is within 0.5 of f.
C25_RoundTripWithinHalf ==
  (args.fn = "toFahrenheit" /\ returned.done) =>
    /\ returned.value - args.value <= 5
    /\ args.value - returned.value <= 5

\* 69 F is shown as 20.5 C and sent back as 69 F
C25_Witness ==
  /\ args.fn = "toFahrenheit" /\ returned.done
  /\ args.value = 690 /\ returned.shown = 205 /\ returned.value = 690

C21_FailureMarksCharacteristics ==
  [][ ( /\ BagCardinality(valveInflight') < BagCardinality(valveInflight)
        /\ valveHist'.answered.outcome = "networkError" )
      => valveService'.Active = ErrorMarker ]_vars

\* ------------------------------------------------- setters and refreshes
\* C27 as stated: when the debounce window ends and the setter called last
\* wrote v to a mirror field in that window, the payload sent is the one the
\* mirror gives with v in that field, whatever refreshStatus did meanwhile.
C27_PayloadCarriesSetValue ==
  [][ ( /\ burst # NoBurst /\ burst' = NoBurst
        /\ burst[Len(burst)] = lastSet
        /\ lastSet.name \in Fields )
      => sent' = PushPayload(device, [Thermostat EXCEPT ![lastSet.name] = lastSet.value],
                             thermostatSetpointStatus) ]_vars

\* C28 as stated: whenever a Pending Command Signal has been emitted and its
\* push has not completed (a debounce window is open, or the POST made when
\* one ended is unanswered), thermostatUpdateInProgress is true.
C28_FlagWhilePending ==
  ( \/ debounce > 0
    \/ \E r \in BagToSet(inflight) : r.op = "pushChanges" /\ r.by = "debounce" )
  => thermostatUpdateInProgress

\* C29 as stated: while a fan command of a thermostat adapter is pending (its
\* signal waits in debounceTime, or the PUT made when the window ended is
\* unanswered), no tick of the poll interval calls refreshStatus.
C29_NoPollWhileFanPending ==
  [][ ( \/ fanDebounce > 0
        \/ \E r \in BagToSet(fanInflight) : r.by = "debounce" )
      => CopiesIn(Request("refreshStatus", "poll", 0), inflight')
           <= CopiesIn(Request("refreshStatus", "poll", 0), inflight) ]_vars

\* ------------------------------------------------------ flag and polling
\* C30: once a Pending Command Signal has set thermostatUpdateInProgress, the
\* flag becomes false again whether the push succeeds or fails, and a tick of
\* the poll interval that finds the flag false calls refreshStatus.
C30_FlagClearsAndPollingResumes ==
  /\ thermostatUpdateInProgress ~> ~thermostatUpdateInProgress
  /\ [][ ( /\ hist'.pollTicks = hist.pollTicks + 1
           /\ ~thermostatUpdateInProgress )
         => CopiesIn(Request("refreshStatus", "poll", 0), inflight')
              = CopiesIn(Request("refreshStatus", "poll", 0), inflight) + 1 ]_vars

\* the only command's push has failed, the flag is false again and the poll
\* tick after it has called refreshStatus
C30_Witness ==
  /\ hist.setCalls = workload.setCalls /\ hist.setCalls > 0
  /\ hist.pushFailures > 0
  /\ debounce = 0
  /\ ~thermostatUpdateInProgress
  /\ hist.pollTicks > 0
  /\ BagIn(Request("refreshStatus", "poll", 0), inflight)

\* -------------------------------------------------- retry timers pending
\* C31 as stated: the retry timers of refreshStatus pending at the same time
\* stay bounded however many refreshes fail: a failed refresh waits for its one
\* retry, so at most one such timer is pending for the adapter.
C31_RetryTimersBounded ==
  BagCardinality([t \in {x \in BagToSet(timers) :
                           x.op = "refreshStatus" /\ x.kind = "retry"} |-> timers[t]]) <= 1

\* ------------------------------------------------------ failed exchanges
\* C32 as stated: the step in which a token exchange fails, or is answered
\* without access_token and refresh_token, leaves config.credentials as it was.
C32_FailedExchangeKeepsTokens ==
  [][ ( /\ BagCardinality(exchanges') < BagCardinality(exchanges)
        /\ tokenHist'.answer.outcome # "ok" )
      => credentials' = credentials ]_vars

\* ------------------------------------------------- concurrent cache misses
\* the fetches of getCurrentSensorData for one device id that have succeeded
C33_Completed(id) ==
  {k \in DOMAIN cacheHist : /\ cacheHist[k].id = id /\ cacheHist[k].fetched
                            /\ cacheHist[k].done /\ cacheHist[k].ok}

\* C33: two getCurrentSensorData calls for one device that both miss the cache,
\* the second while the fetch of the first is under way, both fetch; once both
\* fetches have succeeded the device has one entry, and it expires 45 s after
\* the completion of the fetch that completed last.
C33_OverlappingMissesBothFetch ==
  \A i, j \in DOMAIN cacheHist :
    (/\ i < j /\ cacheHist[i].id = cacheHist[j].id
     /\ cacheHist[i].fetched /\ cacheHist[j].fetched
     /\ i \in cacheHist[j].open)
    => /\ (~cacheHist[i].done /\ ~cacheHist[j].done)
            => \E f, g \in BagToSet(fetches) : f.call = i /\ g.call = j
       /\ ({i, j} \subseteq C33_Completed(cacheHist[i].id))
            => /\ sensorData[cacheHist[i].id].present
               /\ \E k \in C33_Completed(cacheHist[i].id) :
                    /\ \A l \in C33_Completed(cacheHist[i].id) :
                          cacheHist[l].doneAt <= cacheHist[k].doneAt
                    /\ sensorData[cacheHist[i].id].timestamp = cacheHist[k].doneAt + CacheTTL

\* two calls for one device both missed and fetched, the second before the
\* first fetch had completed; the first fetch completed, 45 s later the second,
\* and the entry expires 45 s after that
C33_Witness ==
  /\ Len(cacheHist) >= 2
  /\ cacheHist[1].id = cacheHist[2].id
  /\ cacheHist[1].fetched /\ cacheHist[2].fetched
  /\ 1 \in cacheHist[2].open
  /\ cacheHist[1].done /\ cacheHist[1].ok /\ cacheHist[2].done /\ cacheHist[2].ok
  /\ cacheHist[2].doneAt = cacheHist[1].doneAt + ClockStep
  /\ fetches = EmptyBag
  /\ sensorData[cacheHist[1].id].timestamp = cacheHist[2].doneAt + CacheTTL

\* C34 as stated: a getCurrentSensorData call that returns, returns the rooms
\* of the group it was called with.
C34_ReturnsRequestedGroup ==
  \A j \in DOMAIN cacheHist :
    (cacheHist[j].done /\ cacheHist[j].ok)
      => cacheHist[j].returned = normalizeSensorDate(cacheHist[j].group)

\* ---------------------------------------------------- overlapping refreshes
\* the follow-up refresh of the only command, issued after the constructor's
\* refreshStatus calls, has been answered with the device and parsed
C35_FollowUpParsed ==
  /\ workload.start = "fresh" /\ hist.setCalls = workload.setCalls
  /\ lastFlush # NoBurst /\ debounce = 0
  /\ ~BagIn(Request("pushChanges", "debounce", 0), inflight)
  /\ ~BagIn(Timer("refreshStatus", "followup", 0), timers)
  /\ ~BagIn(Request("refreshStatus", "followup", 0), inflight)
  /\ hist.failures = 0 /\ hist.unhandled = 0

\* C35 as stated: once the response to a later refreshStatus request has been
\* parsed, the response to a request issued earlier (here: by the constructor)
\* does not overwrite the mirror.
C35_EarlierResponseNeverOverwrites ==
  [][ ( /\ C35_FollowUpParsed
        /\ CopiesIn(Request("refreshStatus", "constructor", 0), inflight')
             < CopiesIn(Request("refreshStatus", "constructor", 0), inflight) )
      => Thermostat' = Thermostat ]_vars

\* ------------------------------------------------- the token-refresh timer
\* C36: at any time at most one setInterval timer of refreshAccessToken runs,
\* and it is the one this.refreshInterval holds, however often
\* refreshAccessToken has been called.
C36_OneRefreshTimer ==
  /\ BagCardinality(intervals) <= 1
  /\ refreshInterval # NoInterval => intervals = SetToBag({refreshInterval})

\* refreshAccessToken was called at the launch and again 300 s later, before
\* the first timer was due: one timer runs, due 600 s after the second call
C36_Witness ==
  /\ tokenHist.calls = 2
  /\ now = TokenStep /\ tokenHist.lastCall = now
  /\ intervals = SetToBag({now + refreshPeriod})

\* ------------------------------------------------------- the poll period
\* C37 as stated: an adapter constructed under a configuration that
\* verifyConfig has accepted polls with a period of at least 30 s, whatever
\* refreshRate its device entry, room sensor or room priority configures.
C37_PollPeriodAtLeast30s ==
  (args.fn = "getDeviceRateSettings" /\ returned.done) => returned.period >= 30 * 1000

\* C38: once the POST that carried the last setActive command ('closed' for
\* INACTIVE, 'open' for ACTIVE) was answered with success and a poll sent after
\* that was answered by a vendor that reports the valve in the commanded state,
\* the mirror's Active is still the commanded value
C38_PollKeepsCommandedActive ==
  LET state == IF valveHist.commanded = ACTIVE THEN "open" ELSE "closed"
      reported == IF valveHist.commanded = ACTIVE THEN "Open" ELSE "Closed"
  IN ( /\ valveHist.setCalls > 0
       /\ valveHist.pushed = [state |-> state, after |-> valveHist.setCalls]
       /\ valveHist.answered.op = "refreshStatus"
       /\ valveHist.answered.outcome = "parsed"
       /\ valveHist.answered.after = valveHist.setCalls
       /\ valveHist.answered.valveStatus = reported )
     => Valve.Active = valveHist.commanded

\* C39: the step in which a GET of Valve.refreshStatus is answered with status
\* 200 and a JSON body arms no retry timer and leaves no error marker on the
\* host's Active characteristic: the host shows what the mirror holds
C39_AnsweredRefreshIsNoError ==
  [][ ( /\ BagCardinality(valveInflight') < BagCardinality(valveInflight)
        /\ valveHist'.answered = [op |-> "refreshStatus", outcome |-> "answered"] )
      => /\ valveTimers' = valveTimers
         /\ valveService'.Active # ErrorMarker
         /\ valveService' = Valve' ]_vars

=============================================================================
